---- MODULE Spec2Model ----
(***************************************************************************)
(* Model of TestCaseService (src/services/test_case_service.py): the       *)
(* extractor parse_test_cases with its helpers, the scorer                 *)
(* validate_test_cases, and the utilities improve_test_cases,              *)
(* filter_incomplete_test_cases and clean_test_cases.                      *)
(*                                                                         *)
(* Text is a sequence of lexemes.  Every lexeme is the TLA+ string of the  *)
(* characters it stands for ("Test Case", "Steps", ":", "\n", "1", ...),   *)
(* so Len(lexeme) is its number of characters.  The regular expressions of *)
(* the source are translated over lexemes; the lexemes are chosen so that  *)
(* no literal of a pattern can start or end inside a lexeme or be formed   *)
(* by gluing two lexemes together, except where a comment says so.  Only   *)
(* the lexemes " " and "\n" hold whitespace at either end.                 *)
(***************************************************************************)
EXTENDS Integers, Sequences, FiniteSets, TLC

VARIABLES pc, test_cases_text, ticket_key, test_cases, quality_scores,
          recommendations, complete, incomplete, cleaned_cases,
          calls, frames, history, log,
          format_call, parse_call, ticket_call

vars == <<pc, test_cases_text, ticket_key, test_cases, quality_scores,
          recommendations, complete, incomplete, cleaned_cases,
          calls, frames, history, log,
          format_call, parse_call, ticket_call>>

\* What one caller's pipeline holds, and what several callers of one service
\* object hold between them.
pipelineVars == <<pc, test_cases_text, ticket_key, test_cases, quality_scores,
                  recommendations, complete, incomplete, cleaned_cases>>

callVars == <<calls, frames, history, log>>

\* The frames of single calls followed statement by statement: one of
\* _format_steps, one of parse_test_cases, one of the ticket pipeline.
stepVars == <<format_call, parse_call, ticket_call>>

-----------------------------------------------------------------------------
(* Lexeme classes: Python's \s, \d and [\w-].                              *)

Digits == <<"0", "1", "2", "3", "4", "5", "6", "7", "8", "9">>

IsSpace(t) == t \in {" ", "\n"}

IsDigit(t) == t \in {"0", "1", "2", "3", "4", "5", "6", "7", "8", "9"}

\* Lexemes that hold a character outside [\w-]: a run of [\w-]+ cannot pass
\* through them.  "Test Case", "Expected Result" and "edge case" hold a space.
NonWord == {" ", "\n", "#", "*", ".", ":", "Test Case", "Expected Result",
            "expected result", "edge case", ""}

IsWordTok(t) == t \notin NonWord

\* s[i], or the empty string outside the text.
At(s, i) == IF i \in 1..Len(s) THEN s[i] ELSE ""

Min(S) == CHOOSE x \in S : \A y \in S : x <= y

Max(S) == CHOOSE x \in S : \A y \in S : x >= y

\* Number of characters of a text: Python's len().
RECURSIVE CharLen(_)
CharLen(s) == IF s = <<>> THEN 0 ELSE Len(Head(s)) + CharLen(Tail(s))

\* Greedy \s*: the first position at or after i that holds no whitespace.
SkipSpace(s, i) == Min({k \in i..(Len(s) + 1) : ~IsSpace(At(s, k))})

\* Greedy \d+ and [\w-]+: the first position at or after i outside the class.
SkipDigits(s, i) == Min({k \in i..(Len(s) + 1) : ~IsDigit(At(s, k))})

SkipWord(s, i) == Min({k \in i..(Len(s) + 1) : ~IsWordTok(At(s, k))})

\* str.strip()
Strip(s) ==
    LET keep == {k \in 1..Len(s) : ~IsSpace(s[k])}
    IN  IF keep = {} THEN <<>> ELSE SubSeq(s, Min(keep), Max(keep))

\* re.sub(r'\n{3,}', '\n\n', s)
RECURSIVE CollapseFrom(_, _)
CollapseFrom(s, i) ==
    IF i > Len(s) THEN <<>>
    ELSE IF s[i] = "\n"
         THEN LET e == Min({k \in i..(Len(s) + 1) : At(s, k) # "\n"})
              IN  (IF e - i >= 3 THEN <<"\n", "\n">> ELSE SubSeq(s, i, e - 1))
                  \o CollapseFrom(s, e)
         ELSE <<s[i]>> \o CollapseFrom(s, i + 1)

CollapseNewlines(s) == CollapseFrom(s, 1)

\* re.sub(r'#{1,6}\s+', '', s): a run of at most six '#' followed by
\* whitespace goes, with all the whitespace after it.  In a longer run the
\* leading '#' stay and the last six go.
\* The end of the run of '#' that holds position k.
HeaderRunEnd(s, k) == Min({e \in k..(Len(s) + 1) : At(s, e) # "#"})

\* Position k lies inside a match of '#{1,6}\s+': it is one of the last six
\* '#' of a run that whitespace follows, or whitespace that follows a '#'.
InHeaderMarker(s, k) ==
    \/ /\ s[k] = "#"
       /\ HeaderRunEnd(s, k) - k <= 6
       /\ IsSpace(At(s, HeaderRunEnd(s, k)))
    \/ /\ IsSpace(s[k])
       /\ At(s, Max({j \in 0..(k - 1) : ~IsSpace(At(s, j))})) = "#"

\* s[lo..hi] without the positions re.sub removes.
RECURSIVE DropMarkers(_, _, _)
DropMarkers(s, lo, hi) ==
    IF lo > hi THEN <<>>
    ELSE IF lo = hi
         THEN IF InHeaderMarker(s, lo) THEN <<>> ELSE <<s[lo]>>
         ELSE DropMarkers(s, lo, (lo + hi) \div 2)
                  \o DropMarkers(s, (lo + hi) \div 2 + 1, hi)

StripHeaders(s) == DropMarkers(s, 1, Len(s))

-----------------------------------------------------------------------------
(* Segmentation: parse_test_cases, lines 27-43.                            *)

\* 'Test Case [\w-]+:' matches at i.
IsPrimaryAnchor(s, i) ==
    /\ At(s, i) = "Test Case" /\ At(s, i + 1) = " "
    /\ SkipWord(s, i + 2) > i + 2
    /\ At(s, SkipWord(s, i + 2)) = ":"

\* 'ID-\d+:' matches at i.
IsSecondaryAnchor(s, i) ==
    /\ At(s, i) = "ID-"
    /\ SkipDigits(s, i + 1) > i + 1
    /\ At(s, SkipDigits(s, i + 1)) = ":"

\* '$' without re.MULTILINE: the end of the text, or just before a final newline.
IsEnd(s, k) == k = Len(s) + 1 \/ (k = Len(s) /\ s[k] = "\n")

\* re.findall(r'Test Case ([\w-]+):(.*?)(?=Test Case [\w-]+:|$)', s, re.DOTALL)
\* from position i on: the pairs <<test_id, content>>, left to right.
RECURSIVE PrimaryMatchesFrom(_, _)
PrimaryMatchesFrom(s, i) ==
    LET starts == {a \in i..Len(s) : IsPrimaryAnchor(s, a)}
    IN  IF starts = {} THEN <<>>
        ELSE LET a == Min(starts)
                 c == SkipWord(s, a + 2) + 1
                 k == Min({j \in c..(Len(s) + 1) :
                              IsPrimaryAnchor(s, j) \/ IsEnd(s, j)})
             IN  <<[test_id |-> SubSeq(s, a + 2, c - 2),
                    content |-> SubSeq(s, c, k - 1)]>>
                 \o PrimaryMatchesFrom(s, k)

\* re.findall(r'(ID-\d+):(.*?)(?=ID-\d+:|$)', s, re.DOTALL) from position i on.
RECURSIVE SecondaryMatchesFrom(_, _)
SecondaryMatchesFrom(s, i) ==
    LET starts == {a \in i..Len(s) : IsSecondaryAnchor(s, a)}
    IN  IF starts = {} THEN <<>>
        ELSE LET a == Min(starts)
                 c == SkipDigits(s, a + 1) + 1
                 k == Min({j \in c..(Len(s) + 1) :
                              IsSecondaryAnchor(s, j) \/ IsEnd(s, j)})
             IN  <<[test_id |-> SubSeq(s, a, c - 2),
                    content |-> SubSeq(s, c, k - 1)]>>
                 \o SecondaryMatchesFrom(s, k)

\* A segmentation that falls back to the whole text as one unlabelled block.
FindMatchesWholeText(text) ==
    LET normalized_text == StripHeaders(text)
        matches == PrimaryMatchesFrom(normalized_text, 1)
    IN  IF matches # <<>> THEN matches
        ELSE IF SecondaryMatchesFrom(normalized_text, 1) # <<>>
        THEN SecondaryMatchesFrom(normalized_text, 1)
        ELSE IF normalized_text # <<>>
        THEN << [test_id |-> <<>>, content |-> normalized_text] >>
        ELSE <<>>

\* A segmentation that reads the blocks of both patterns, the primary ones
\* first.
FindMatchesBothPatterns(text) ==
    LET normalized_text == StripHeaders(text)
    IN  PrimaryMatchesFrom(normalized_text, 1)
        \o SecondaryMatchesFrom(normalized_text, 1)

\* The blocks of a raw text, lines 28-38: the primary pattern, and the
\* secondary pattern only when the primary one finds nothing.
FindMatches(text) ==
    LET normalized_text == StripHeaders(text)
        matches == PrimaryMatchesFrom(normalized_text, 1)
    IN  IF matches # <<>> THEN matches
        ELSE SecondaryMatchesFrom(normalized_text, 1)

-----------------------------------------------------------------------------
(* Text helpers shared by the field extractors.                            *)

\* Greedy ':?' at position i: the position after the optional colon.
SkipColon(s, i) == IF At(s, i) = ":" THEN i + 1 ELSE i

\* str.split('\n')
RECURSIVE SplitLinesFrom(_, _)
SplitLinesFrom(s, i) ==
    LET e == Min({k \in i..(Len(s) + 1) : At(s, k) = "\n" \/ k = Len(s) + 1})
    IN  IF e = Len(s) + 1 THEN <<SubSeq(s, i, Len(s))>>
        ELSE <<SubSeq(s, i, e - 1)>> \o SplitLinesFrom(s, e + 1)

SplitLines(s) == SplitLinesFrom(s, 1)

\* '\n'.join(lines)
RECURSIVE JoinLines(_)
JoinLines(lines) ==
    IF lines = <<>> THEN <<>>
    ELSE IF Len(lines) = 1 THEN lines[1]
    ELSE lines[1] \o <<"\n">> \o JoinLines(Tail(lines))

\* str(n) for n >= 0, as digit lexemes.
RECURSIVE ToStr(_)
ToStr(n) == IF n < 10 THEN <<Digits[n + 1]>>
            ELSE ToStr(n \div 10) \o <<Digits[(n % 10) + 1]>>

\* f"{idx:03d}"
Pad3(idx) == IF idx < 10 THEN <<"0", "0">> \o ToStr(idx)
             ELSE IF idx < 100 THEN <<"0">> \o ToStr(idx)
             ELSE ToStr(idx)

\* re.sub(r'\*\*(.*?)\*\*', r'\1', s): '.' stops at a newline.
RECURSIVE UnwrapBoldFrom(_, _)
UnwrapBoldFrom(s, i) ==
    IF i > Len(s) THEN <<>>
    ELSE LET closes == {j \in (i + 2)..Len(s) :
                           /\ s[j] = "*" /\ At(s, j + 1) = "*"
                           /\ \A m \in (i + 2)..(j - 1) : s[m] # "\n"}
         IN  IF s[i] = "*" /\ At(s, i + 1) = "*" /\ closes # {}
             THEN SubSeq(s, i + 2, Min(closes) - 1)
                  \o UnwrapBoldFrom(s, Min(closes) + 2)
             ELSE <<s[i]>> \o UnwrapBoldFrom(s, i + 1)

\* re.sub(r'\*(.*?)\*', r'\1', s)
RECURSIVE UnwrapItalicFrom(_, _)
UnwrapItalicFrom(s, i) ==
    IF i > Len(s) THEN <<>>
    ELSE LET closes == {j \in (i + 1)..Len(s) :
                           /\ s[j] = "*"
                           /\ \A m \in (i + 1)..(j - 1) : s[m] # "\n"}
         IN  IF s[i] = "*" /\ closes # {}
             THEN SubSeq(s, i + 1, Min(closes) - 1)
                  \o UnwrapItalicFrom(s, Min(closes) + 1)
             ELSE <<s[i]>> \o UnwrapItalicFrom(s, i + 1)

\* _clean_field_content
CleanFieldContent(content) ==
    IF content = <<>> THEN <<>>
    ELSE Strip(CollapseNewlines(
             UnwrapItalicFrom(UnwrapBoldFrom(StripHeaders(content), 1), 1)))

\* re.match(r'^\d+\.', line)
StartsNumbered(line) ==
    SkipDigits(line, 1) > 1 /\ At(line, SkipDigits(line, 1)) = "."

\* A loop body that gives every line the next number.
NumberedLineAlways(line, formatted_steps) ==
    ToStr(Len(formatted_steps) + 1) \o <<".", " ">> \o line

\* A loop body that appends every line as it is.
NumberedLineVerbatim(line, formatted_steps) == line

\* The body of the loop of _format_steps, lines 216-220: what is appended
\* for one line: a numbered line as it is, any other line behind
\* f"{len(formatted_steps) + 1}. ".
NumberedLine(line, formatted_steps) ==
    IF StartsNumbered(line) THEN line
    ELSE ToStr(Len(formatted_steps) + 1) \o <<".", " ">> \o line

\* The loop of _format_steps over the stripped non-empty lines.
RECURSIVE NumberLines(_, _)
NumberLines(step_lines, formatted_steps) ==
    IF step_lines = <<>> THEN formatted_steps
    ELSE NumberLines(Tail(step_lines),
             Append(formatted_steps,
                    NumberedLine(Head(step_lines), formatted_steps)))

\* [line.strip() for line in text.split('\n') if line.strip()]
StepLines(text) ==
    LET raw == SplitLines(text)
        keep == SelectSeq(raw, LAMBDA l : Strip(l) # <<>>)
    IN  [k \in 1..Len(keep) |-> Strip(keep[k])]

\* _format_steps
FormatSteps(steps_text) ==
    IF steps_text = <<>> THEN <<>>
    ELSE JoinLines(NumberLines(StepLines(CleanFieldContent(steps_text)), <<>>))

-----------------------------------------------------------------------------
(* Field extraction: the body of the loop of parse_test_cases, lines 46-169.*)

\* The labels the patterns search for.
IsSectionLabel(s, i) == At(s, i) = "Section" /\ At(s, i + 1) = ":"

\* 'Preconditions?:'
IsPreconditionsLabel(s, i) ==
    At(s, i) \in {"Preconditions", "Precondition"} /\ At(s, i + 1) = ":"

\* 'Steps?:'
IsStepsLabel(s, i) == At(s, i) \in {"Steps", "Step"} /\ At(s, i + 1) = ":"

\* the substring "Steps:"
IsStepsToken(s, i) == At(s, i) = "Steps" /\ At(s, i + 1) = ":"

\* the substring "Expected Result:"
IsExpectedToken(s, i) == At(s, i) = "Expected Result" /\ At(s, i + 1) = ":"

IsExpectedLabel(s, i) == At(s, i) = "Expected Result"

IsInputLabel(s, i) == At(s, i) = "Input"

\* 'Input Data'
IsInputDataLabel(s, i) ==
    At(s, i) = "Input" /\ At(s, i + 1) = " " /\ At(s, i + 2) = "Data"

IsNotesLabel(s, i) == At(s, i) = "Notes"

\* A split point of r'\nExpected Result:|\n[Ee]xpected [Rr]esult:'
IsRecoveryMarker(s, i) ==
    /\ At(s, i) = "\n"
    /\ At(s, i + 1) \in {"Expected Result", "expected result"}
    /\ At(s, i + 2) = ":"

\* The lookaheads that end a lazy group.
\* (?=\n|$)
SectionStop(s, k) == At(s, k) = "\n" \/ IsEnd(s, k)

\* (?=\nSteps|\n[Ss]teps:|$)
PreconditionsStop(s, k) ==
    \/ At(s, k) = "\n" /\ At(s, k + 1) = "Steps"
    \/ At(s, k) = "\n" /\ At(s, k + 1) \in {"Steps", "steps"} /\ At(s, k + 2) = ":"
    \/ IsEnd(s, k)

\* (?=Expected Result|[Ee]xpected [Rr]esult:|$)
StepsStop1(s, k) ==
    \/ At(s, k) = "Expected Result"
    \/ At(s, k) \in {"Expected Result", "expected result"} /\ At(s, k + 1) = ":"
    \/ IsEnd(s, k)

\* (?=\nExpected|\n[Ee]xpected:|$): no lexeme is a bare "Expected", so the
\* second alternative never matches and the first needs "Expected Result".
StepsStop2(s, k) ==
    \/ At(s, k) = "\n" /\ At(s, k + 1) = "Expected Result"
    \/ IsEnd(s, k)

\* (?=\nInput|\n[Ii]nput:|$)
ExpectedStop1(s, k) ==
    \/ At(s, k) = "\n" /\ At(s, k + 1) = "Input"
    \/ At(s, k) = "\n" /\ At(s, k + 1) \in {"Input", "input"} /\ At(s, k + 2) = ":"
    \/ IsEnd(s, k)

\* (?=\nInput Data|\n[Ii]nput [Dd]ata:|$)
ExpectedStop2(s, k) ==
    \/ At(s, k) = "\n" /\ IsInputDataLabel(s, k + 1)
    \/ /\ At(s, k) = "\n" /\ At(s, k + 1) \in {"Input", "input"}
       /\ At(s, k + 2) = " " /\ At(s, k + 3) \in {"Data", "data"}
       /\ At(s, k + 4) = ":"
    \/ IsEnd(s, k)

\* (?=\nNotes|\n[Nn]otes:|$)
InputStop(s, k) ==
    \/ At(s, k) = "\n" /\ At(s, k + 1) = "Notes"
    \/ At(s, k) = "\n" /\ At(s, k + 1) \in {"Notes", "notes"} /\ At(s, k + 2) = ":"
    \/ IsEnd(s, k)

\* '$' of the notes patterns
NotesStop(s, k) == IsEnd(s, k)

\* The lookahead named `stop` holds at k.
StopAt(stop, s, k) ==
    CASE stop = "section" -> SectionStop(s, k)
      [] stop = "preconditions" -> PreconditionsStop(s, k)
      [] stop = "steps1" -> StepsStop1(s, k)
      [] stop = "steps2" -> StepsStop2(s, k)
      [] stop = "expected1" -> ExpectedStop1(s, k)
      [] stop = "expected2" -> ExpectedStop2(s, k)
      [] stop = "input" -> InputStop(s, k)
      [] stop = "notes" -> NotesStop(s, k)

\* The literal named `label` matches at k.
LabelAt(label, s, k) ==
    CASE label = "Section:" -> IsSectionLabel(s, k)
      [] label = "Preconditions?:" -> IsPreconditionsLabel(s, k)
      [] label = "Steps?:" -> IsStepsLabel(s, k)
      [] label = "Steps:" -> IsStepsToken(s, k)
      [] label = "Expected Result:" -> IsExpectedToken(s, k)
      [] label = "Expected Result" -> IsExpectedLabel(s, k)
      [] label = "Input" -> IsInputLabel(s, k)
      [] label = "Input Data" -> IsInputDataLabel(s, k)
      [] label = "Notes" -> IsNotesLabel(s, k)
      [] label = "recovery" -> IsRecoveryMarker(s, k)

\* Lazy '(.*?)' before a lookahead: the first position in i..Len(s)+1 where
\* the lookahead holds; the lookaheads of the source all accept '$', so
\* there is one.
LazyUntil(s, i, stop) == Min({k \in i..(Len(s) + 1) : StopAt(stop, s, k)})

\* re.search tries the positions from the left: the leftmost position where
\* the literal matches, 0 when there is none.
Leftmost(s, label) ==
    LET hits == {k \in 1..Len(s) : LabelAt(label, s, k)}
    IN  IF hits = {} THEN 0 ELSE Min(hits)

\* group(1) of re.search(label + after + r'(.*?)' + lookahead, content): the
\* leftmost label decides, and the group runs from `from` to the lookahead.
\* None (no match) is the empty text here: the source tests
\* 'match and match.group(1).strip()', which fails alike in both cases.
LazyGroup(s, from, stop) == SubSeq(s, from, LazyUntil(s, from, stop) - 1)

\* r'Section:\s*(.*?)(?=\n|$)', lines 61-63
ExtractSection(content) ==
    LET i == Leftmost(content, "Section:")
        g == IF i = 0 THEN <<>>
             ELSE LazyGroup(content, SkipSpace(content, i + 2), "section")
    IN  IF Strip(g) # <<>> THEN Strip(g) ELSE <<"General">>

\* r'Preconditions?:\s*(.*?)(?=\nSteps|\n[Ss]teps:|$)', lines 66-69
ExtractPreconditions(content) ==
    LET i == Leftmost(content, "Preconditions?:")
        g == IF i = 0 THEN <<>>
             ELSE LazyGroup(content, SkipSpace(content, i + 2), "preconditions")
    IN  IF Strip(g) # <<>> THEN CleanFieldContent(g) ELSE <<>>

\* The two steps patterns, lines 72-82: the first whose group is not blank
\* is formatted, also when formatting leaves nothing.
ExtractSteps(content) ==
    LET i == Leftmost(content, "Steps?:")
        g1 == IF i = 0 THEN <<>> ELSE LazyGroup(content, i + 2, "steps1")
        g2 == IF i = 0 THEN <<>> ELSE LazyGroup(content, i + 2, "steps2")
    IN  IF Strip(g1) # <<>> THEN FormatSteps(Strip(g1))
        ELSE IF Strip(g2) # <<>> THEN FormatSteps(Strip(g2))
        ELSE <<>>

\* s.split(token)[0] and s.split(token)[1] for a two-lexeme token.
SplitFirst(s, token) ==
    LET i == Leftmost(s, token)
    IN  IF i = 0 THEN s ELSE SubSeq(s, 1, i - 1)

SplitSecond(s, token) ==
    LET i == Leftmost(s, token)
        rest == SubSeq(s, i + 2, Len(s))
    IN  SplitFirst(rest, token)

\* re.search(r'^\s*\d+\.', s, re.MULTILINE)
HasNumberedList(s) ==
    \E p \in 1..Len(s) :
        /\ p = 1 \/ s[p - 1] = "\n"
        /\ LET g == SkipSpace(s, p)
           IN  SkipDigits(s, g) > g /\ At(s, SkipDigits(s, g)) = "."

\* The corrective pass, lines 85-96: <<preconditions, steps>> after it.
CorrectivePass(content, preconditions, steps) ==
    IF steps = <<>> /\ Leftmost(content, "Steps:") # 0
    THEN LET potential_steps == Strip(SplitSecond(content, "Steps:"))
         IN  IF HasNumberedList(potential_steps)
             THEN <<IF preconditions # <<>>
                       /\ Leftmost(preconditions, "Steps:") # 0
                    THEN Strip(SplitFirst(preconditions, "Steps:"))
                    ELSE preconditions,
                    FormatSteps(Strip(SplitFirst(potential_steps, "Expected Result:")))>>
             ELSE <<preconditions, steps>>
    ELSE <<preconditions, steps>>

\* The two expected-result patterns, lines 99-108.
ExtractExpectedResult(content) ==
    LET i == Leftmost(content, "Expected Result")
        from == SkipSpace(content, SkipColon(content, i + 1))
        g1 == IF i = 0 THEN <<>> ELSE LazyGroup(content, from, "expected1")
        g2 == IF i = 0 THEN <<>> ELSE LazyGroup(content, from, "expected2")
    IN  IF Strip(g1) # <<>> THEN CleanFieldContent(g1)
        ELSE IF Strip(g2) # <<>> THEN CleanFieldContent(g2)
        ELSE <<>>

\* The two input patterns, lines 111-120: 'Input:?' is tried first and also
\* matches the first word of 'Input Data:'.
ExtractInputData(content) ==
    LET i1 == Leftmost(content, "Input")
        g1 == IF i1 = 0 THEN <<>>
              ELSE LazyGroup(content,
                       SkipSpace(content, SkipColon(content, i1 + 1)), "input")
        i2 == Leftmost(content, "Input Data")
        g2 == IF i2 = 0 THEN <<>>
              ELSE LazyGroup(content,
                       SkipSpace(content, SkipColon(content, i2 + 3)), "input")
    IN  IF Strip(g1) # <<>> THEN CleanFieldContent(g1)
        ELSE IF Strip(g2) # <<>> THEN CleanFieldContent(g2)
        ELSE <<>>

\* The two notes patterns, lines 123-132: lazy and greedy up to '$'.
ExtractNotes(content) ==
    LET i == Leftmost(content, "Notes")
        from == SkipSpace(content, SkipColon(content, i + 1))
        g1 == IF i = 0 THEN <<>> ELSE LazyGroup(content, from, "notes")
        g2 == IF i = 0 THEN <<>> ELSE SubSeq(content, from, Len(content))
    IN  IF Strip(g1) # <<>> THEN CleanFieldContent(g1)
        ELSE IF Strip(g2) # <<>> THEN CleanFieldContent(g2)
        ELSE <<>>

\* re.split(marker, steps): the parts before the first marker and between
\* the first and the second one.
RecoveryParts(steps) ==
    LET i == Leftmost(steps, "recovery")
        rest == SubSeq(steps, i + 3, Len(steps))
        j == Leftmost(rest, "recovery")
    IN  IF i = 0 THEN <<steps>>
        ELSE <<SubSeq(steps, 1, i - 1),
               IF j = 0 THEN rest ELSE SubSeq(rest, 1, j - 1)>>

\* The recovery rule, lines 135-140: <<steps, expected_result>> after it.
Recovery(steps, expected_result) ==
    IF expected_result = <<>> /\ steps # <<>> /\ Len(RecoveryParts(steps)) > 1
    THEN <<FormatSteps(RecoveryParts(steps)[1]),
           CleanFieldContent(RecoveryParts(steps)[2])>>
    ELSE <<steps, expected_result>>

\* An id that leaves the label out.
TestCaseIdUnlabelled(test_id, idx) == <<"TC-">>

\* f"TC-{test_id.strip()}" if test_id.strip() else f"TC-{idx:03d}", line 49
TestCaseId(test_id, idx) ==
    IF Strip(test_id) # <<>> THEN <<"TC-">> \o Strip(test_id)
    ELSE <<"TC-">> \o Pad3(idx)

\* A completeness check that forgets the expected result.
IncompleteFieldsNoExpected(preconditions, steps, expected_result) ==
    (IF preconditions = <<>> THEN <<"preconditions">> ELSE <<>>)
    \o (IF steps = <<>> THEN <<"steps">> ELSE <<>>)

\* The required fields that are empty, lines 143-149.
IncompleteFields(preconditions, steps, expected_result) ==
    (IF preconditions = <<>> THEN <<"preconditions">> ELSE <<>>)
    \o (IF steps = <<>> THEN <<"steps">> ELSE <<>>)
    \o (IF expected_result = <<>> THEN <<"expected_result">> ELSE <<>>)

\* One pass of the loop body: the record appended for block idx.
ParseBlock(idx, test_id, raw_content, key) ==
    LET content == CollapseNewlines(Strip(raw_content))
        fixed == CorrectivePass(content, ExtractPreconditions(content),
                                ExtractSteps(content))
        recovered == Recovery(fixed[2], ExtractExpectedResult(content))
        preconditions == fixed[1]
        steps == recovered[1]
        expected_result == recovered[2]
    IN  [id |-> TestCaseId(test_id, idx),
         ticket_key |-> key,
         section |-> ExtractSection(content),
         preconditions |-> preconditions,
         steps |-> steps,
         expected_result |-> expected_result,
         input_data |-> ExtractInputData(content),
         notes |-> ExtractNotes(content),
         is_complete |->
             Len(IncompleteFields(preconditions, steps, expected_result)) = 0]

\* A loop that puts each new record in front of the earlier ones.
ParseTestCasesPrepending(text, key) ==
    LET matches == FindMatches(text)
        n == Len(matches)
    IN  [k \in 1..n |->
            ParseBlock(n + 1 - k, matches[n + 1 - k].test_id,
                       matches[n + 1 - k].content, key)]

\* parse_test_cases: no statement of the loop body can raise on text, so the
\* except branch of lines 172-174 is never taken and every block yields a record.
ParseTestCases(text, key) ==
    LET matches == FindMatches(text)
    IN  [idx \in 1..Len(matches) |->
            ParseBlock(idx, matches[idx].test_id, matches[idx].content, key)]

-----------------------------------------------------------------------------
(* The scorer: validate_test_cases and _has_appropriate_step_count.        *)

\* str.lower() of one lexeme; the lexemes not listed hold no upper-case
\* letter that a keyword test could see.
Lower(t) ==
    CASE t = "Login" -> "login"
      [] t = "Checkout" -> "checkout"
      [] t = "Workflow" -> "workflow"
      [] t = "Invalid" -> "invalid"
      [] t = "Edge case" -> "edge case"
      [] t = "Boundary" -> "boundary"
      [] OTHER -> t

\* 'keyword in text.lower()': every keyword of the source is one lexeme, and
\* no two lexemes glue into one.
Contains(text, keyword) == \E i \in 1..Len(text) : Lower(text[i]) = keyword

simple_sections == <<"login", "logout", "search", "filter", "sort", "view">>

complex_sections == <<"upload", "workflow", "wizard", "checkout",
                      "registration", "import", "export">>

\* len(re.findall(r'^\d+\.', steps, re.MULTILINE)), line 238
StepCount(steps) ==
    Cardinality({p \in 1..Len(steps) :
                    /\ p = 1 \/ steps[p - 1] = "\n"
                    /\ SkipDigits(steps, p) > p
                    /\ At(steps, SkipDigits(steps, p)) = "."})

\* A rule that asks three steps of every section.
AtLeastThreeSteps(section, step_count) == step_count >= 3

\* A rule that only caps the number of steps.
AtMostSixSteps(section, step_count) == step_count <= 6

\* A rule that looks for a complex keyword first.
ComplexBeforeSimple(section, step_count) ==
    IF \E k \in 1..Len(complex_sections) : Contains(section, complex_sections[k])
    THEN step_count >= 5
    ELSE IF \E k \in 1..Len(simple_sections) : Contains(section, simple_sections[k])
    THEN 3 <= step_count /\ step_count <= 6
    ELSE step_count >= 3

\* _has_appropriate_step_count, lines 286-314
HasAppropriateStepCount(section, step_count) ==
    IF \E k \in 1..Len(simple_sections) : Contains(section, simple_sections[k])
    THEN 3 <= step_count /\ step_count <= 6
    ELSE IF \E k \in 1..Len(complex_sections) : Contains(section, complex_sections[k])
    THEN step_count >= 5
    ELSE step_count >= 3

\* Criteria whose has_preconditions asks nothing of the preconditions.
CriteriaAnyPreconditions(test_case) ==
    LET step_count == StepCount(test_case.steps)
    IN  << [name |-> "has_preconditions", value |-> TRUE],
           [name |-> "has_minimum_steps", value |-> step_count >= 3],
           [name |-> "has_appropriate_step_count",
            value |-> HasAppropriateStepCount(test_case.section, step_count)],
           [name |-> "has_expected_result",
            value |-> CharLen(test_case.expected_result) > 10],
           [name |-> "has_input_data",
            value |-> CharLen(test_case.input_data) > 3],
           [name |-> "covers_multiple_scenarios",
            value |-> \/ Contains(test_case.input_data, "invalid")
                      \/ Contains(test_case.notes, "edge case")
                      \/ Contains(test_case.notes, "boundary")],
           [name |-> "is_complete", value |-> test_case.is_complete] >>

\* The criteria dict of lines 244-256, in insertion order.
Criteria(test_case) ==
    LET step_count == StepCount(test_case.steps)
    IN  << [name |-> "has_preconditions",
            value |-> CharLen(test_case.preconditions) > 5],
           [name |-> "has_minimum_steps", value |-> step_count >= 3],
           [name |-> "has_appropriate_step_count",
            value |-> HasAppropriateStepCount(test_case.section, step_count)],
           [name |-> "has_expected_result",
            value |-> CharLen(test_case.expected_result) > 10],
           [name |-> "has_input_data",
            value |-> CharLen(test_case.input_data) > 3],
           [name |-> "covers_multiple_scenarios",
            value |-> \/ Contains(test_case.input_data, "invalid")
                      \/ Contains(test_case.notes, "edge case")
                      \/ Contains(test_case.notes, "boundary")],
           [name |-> "is_complete", value |-> test_case.is_complete] >>

\* sum(criteria.values())
TrueCount(criteria) == Cardinality({k \in 1..Len(criteria) : criteria[k].value})

\* A score that leaves the completeness flag out of the divisor.
ScoreOverSix(criteria) ==
    [num |-> TrueCount(criteria) * 100, den |-> Len(criteria) - 1]

\* sum(criteria.values()) * 100 / len(criteria), line 259: the quotient is
\* kept exact, as numerator and denominator.
Score(criteria) == [num |-> TrueCount(criteria) * 100, den |-> Len(criteria)]

\* score < bound, for a whole number bound
ScoreBelow(score, bound) == score.num < bound * score.den

\* A list of the criteria that are met instead of those that are not.
AreasSatisfied(criteria) ==
    LET met == SelectSeq(criteria, LAMBDA c : c.value)
    IN  [k \in 1..Len(met) |-> met[k].name]

\* [key for key, value in criteria.items() if not value], lines 262-264
AreasForImprovement(criteria) ==
    LET failed == SelectSeq(criteria, LAMBDA c : ~c.value)
    IN  [k \in 1..Len(failed) |-> failed[k].name]

\* A missing-field list that forgets the steps.
MissingFieldsNoSteps(test_case) ==
    IF ~test_case.is_complete
    THEN (IF test_case.preconditions = <<>> THEN <<"preconditions">> ELSE <<>>)
         \o (IF test_case.expected_result = <<>> THEN <<"expected_result">> ELSE <<>>)
    ELSE <<>>

\* incomplete_fields of lines 267-274
MissingFields(test_case) ==
    IF ~test_case.is_complete
    THEN (IF test_case.preconditions = <<>> THEN <<"preconditions">> ELSE <<>>)
         \o (IF test_case.steps = <<>> THEN <<"steps">> ELSE <<>>)
         \o (IF test_case.expected_result = <<>> THEN <<"expected_result">> ELSE <<>>)
    ELSE <<>>

\* One pass of the loop of validate_test_cases: the entry appended.
QualityScore(test_case) ==
    [test_case_id |-> test_case.id,
     score |-> Score(Criteria(test_case)),
     areas_for_improvement |-> AreasForImprovement(Criteria(test_case)),
     incomplete_fields |-> MissingFields(test_case)]

\* A scorer that passes over the records flagged incomplete.
ValidateCompleteOnly(cases) ==
    LET kept == SelectSeq(cases, LAMBDA tc : tc.is_complete)
    IN  [k \in 1..Len(kept) |-> QualityScore(kept[k])]

\* validate_test_cases
ValidateTestCases(cases) == [k \in 1..Len(cases) |-> QualityScore(cases[k])]

-----------------------------------------------------------------------------
(* improve_test_cases, filter_incomplete_test_cases, clean_test_cases.     *)

\* A condition that looks at the score alone.
NeedsImprovementScoreOnly(score_info) == ScoreBelow(score_info.score, 60)

\* The condition of line 330.
NeedsImprovement(score_info) ==
    ScoreBelow(score_info.score, 60) \/ score_info.incomplete_fields # <<>>

\* The text of a lexeme sequence as one string.
RECURSIVE Cat(_)
Cat(s) == IF s = <<>> THEN "" ELSE Head(s) \o Cat(Tail(s))

\* str.replace(old, new) on a string, left to right.
RECURSIVE Replace(_, _, _)
Replace(str, old, new) ==
    IF Len(str) < Len(old) THEN str
    ELSE IF SubSeq(str, 1, Len(old)) = old
         THEN new \o Replace(SubSeq(str, Len(old) + 1, Len(str)), old, new)
         ELSE SubSeq(str, 1, 1) \o Replace(SubSeq(str, 2, Len(str)), old, new)

LowerCase == "abcdefghijklmnopqrstuvwxyz"

UpperCase == "ABCDEFGHIJKLMNOPQRSTUVWXYZ"

\* str.capitalize() of a text in lower case: the first letter in upper case.
Capitalize(str) ==
    IF str = "" THEN ""
    ELSE LET hit == {k \in 1..26 : SubSeq(LowerCase, k, k) = SubSeq(str, 1, 1)}
         IN  (IF hit = {} THEN SubSeq(str, 1, 1)
              ELSE SubSeq(UpperCase, Min(hit), Min(hit)))
             \o SubSeq(str, 2, Len(str))

\* A recommendation that lists the failed criteria, is_complete among
\* them, ahead of the missing fields.
RecommendationAreasFirst(score_info) ==
    <<"Test Case " \o Cat(score_info.test_case_id) \o " needs improvement in:">>
    \o (IF score_info.areas_for_improvement # <<>>
        THEN <<"- Areas for improvement:">>
             \o [k \in 1..Len(score_info.areas_for_improvement) |->
                    "  * " \o Capitalize(
                        Replace(Replace(score_info.areas_for_improvement[k],
                                        "has_", ""), "_", " "))]
        ELSE <<>>)
    \o (IF score_info.incomplete_fields # <<>>
        THEN <<"- Missing fields that need completion:">>
             \o [k \in 1..Len(score_info.incomplete_fields) |->
                    "  * " \o Capitalize(
                        Replace(score_info.incomplete_fields[k], "_", " "))]
        ELSE <<>>)

\* The lines of one recommendation, lines 331-345.
Recommendation(score_info) ==
    LET areas == SelectSeq(score_info.areas_for_improvement,
                           LAMBDA a : a # "is_complete")
    IN  <<"Test Case " \o Cat(score_info.test_case_id) \o " needs improvement in:">>
        \o (IF score_info.incomplete_fields # <<>>
            THEN <<"- Missing fields that need completion:">>
                 \o [k \in 1..Len(score_info.incomplete_fields) |->
                        "  * " \o Capitalize(
                            Replace(score_info.incomplete_fields[k], "_", " "))]
            ELSE <<>>)
        \o (IF score_info.areas_for_improvement # <<>>
            THEN <<"- Areas for improvement:">>
                 \o [k \in 1..Len(areas) |->
                        "  * " \o Capitalize(
                            Replace(Replace(areas[k], "has_", ""), "_", " "))]
            ELSE <<>>)

\* improve_test_cases
ImproveTestCases(cases, scores) ==
    LET needing == SelectSeq(scores, NeedsImprovement)
    IN  [k \in 1..Len(needing) |-> Recommendation(needing[k])]

\* A filter that hands the two lists back the wrong way round.
FilterSwapped(cases) ==
    <<SelectSeq(cases, LAMBDA tc : ~tc.is_complete),
      SelectSeq(cases, LAMBDA tc : tc.is_complete)>>

\* filter_incomplete_test_cases: <<complete, incomplete>>
FilterIncompleteTestCases(cases) ==
    <<SelectSeq(cases, LAMBDA tc : tc.is_complete),
      SelectSeq(cases, LAMBDA tc : ~tc.is_complete)>>

\* A clean-up that hands the records back as they are.
CleanKeepingAll(cases) == cases

\* clean_test_cases
CleanTestCases(cases) ==
    [k \in 1..Len(cases) |->
        [f \in DOMAIN cases[k] \ {"is_complete"} |-> cases[k][f]]]

-----------------------------------------------------------------------------
(* The inputs the caller may hand to the service.                          *)

\* Most blocks a composed text holds, and most lines a steps section holds.
MaxBlocks == 2

MaxStepLines == 3

\* k numbered step lines "\n1. foo" ... "\nk. foo"
RECURSIVE NumberedLines(_)
NumberedLines(k) ==
    IF k = 0 THEN <<>>
    ELSE NumberedLines(k - 1) \o <<"\n">> \o ToStr(k) \o <<".", " ", "foo">>

\* What may stand where a block's anchor is expected: a primary anchor, a
\* bare identifier, a primary anchor labelled by an identifier, a primary
\* anchor under a markdown header, one with a blank label, and one whose
\* colon is held off by a header marker.
AnchorTexts ==
    { <<"Test Case", " ", "1", ":">>,
      <<"ID-", "2", ":">>,
      <<"Test Case", " ", "ID-", "3", ":">>,
      <<"#", "#", " ", "Test Case", " ", "4", ":">>,
      <<"Test Case", " ", ":">>,
      <<"Test Case", " ", "5", "#", " ", ":">> }

SectionTexts == { <<>>, <<"\n", "Section", ":", " ", "Login">> }

PreconditionsTexts ==
    { <<>>,
      <<"\n", "Preconditions", ":", " ", "foo", " ", "logged">>,
      <<"\n", "Preconditions", ":">>,
      <<"\n", "Preconditions", ":", " ", "foo", " ", "Steps", ":", " ",
        "1", ".", " ", "foo">> }

StepsTexts ==
    { <<>>,
      <<"\n", "Steps", ":", "\n", "foo", "\n", "3", ".", " ", "foo">>,
      <<"\n", "#", "#", " ", "Steps", ":", "\n", "*", "foo", "*", "\n",
        "Expected Result", ":", " ", "foo">>,
      <<"\n", "Steps", ":", "\n", "foo", "\n", "expected result", ":", " ",
        "foo">> }
    \cup { <<"\n", "Steps", ":">> \o NumberedLines(k) : k \in 0..MaxStepLines }

ExpectedTexts ==
    { <<>>,
      <<"\n", "Expected Result", ":", " ", "foo", " ", "is", " ", "logged">>,
      <<"\n", "Expected Result", ":">> }

InputTexts ==
    { <<>>,
      <<"\n", "Input", ":", " ", "invalid">>,
      <<"\n", "Input", " ", "Data", ":", " ", "foo">> }

NotesTexts == { <<>>, <<"\n", "Notes", ":", " ", "edge case">> }

\* Texts of one candidate block: any anchor with any choice of sections.
OneBlockTexts ==
    { a \o sec \o pre \o stp \o exp \o inp \o nts :
        a \in AnchorTexts, sec \in SectionTexts, pre \in PreconditionsTexts,
        stp \in StepsTexts, exp \in ExpectedTexts, inp \in InputTexts,
        nts \in NotesTexts }

\* Blocks that texts of several blocks are composed of.
ComposedBlocks ==
    { <<"Test Case", " ", "1", ":", "\n", "Section", ":", " ", "Login", "\n",
        "Preconditions", ":", " ", "foo", " ", "logged", "\n", "Steps", ":">>
        \o NumberedLines(MaxStepLines)
        \o <<"\n", "Expected Result", ":", " ", "foo", " ", "is", " ", "logged",
             "\n", "Input", ":", " ", "invalid">>,
      <<"Test Case", " ", "2", ":", "\n", "Steps", ":", "\n", "foo">>,
      <<"Test Case", " ", "1", ":", " ", "foo">>,
      <<"ID-", "3", ":", "\n", "Preconditions", ":", " ", "foo", " ", "logged">>,
      <<"Test Case", " ", ":", "\n", "Steps", ":", "\n", "foo">>,
      <<"foo">> }

\* b1 \n\n b2 \n\n ... for a sequence of blocks.
RECURSIVE JoinBlocks(_)
JoinBlocks(blocks) ==
    IF blocks = <<>> THEN <<>>
    ELSE IF Len(blocks) = 1 THEN blocks[1]
    ELSE blocks[1] \o <<"\n", "\n">> \o JoinBlocks(Tail(blocks))

ComposedTexts ==
    UNION { { JoinBlocks(bs) : bs \in [1..n -> ComposedBlocks] } : n \in 2..MaxBlocks }

Texts == {<<>>} \cup OneBlockTexts \cup ComposedTexts

TicketKeys == { <<"QA-", "1">> }

-----------------------------------------------------------------------------
(* What the calls do besides returning: the records they hand to the       *)
(* module's logger, and the assignments they make to the records they are  *)
(* given.                                                                   *)

\* A record the logger receives: the source line of the call and what the
\* message is about.
LogRecord(line, about) == [line |-> line, about |-> about]

\* The records one call of parse_test_cases logs, given the list it
\* returns: lines 35, 42, 153, 176 and 183.
ParseLog(text, key, parsed) ==
    (IF PrimaryMatchesFrom(StripHeaders(text), 1) = <<>>
     THEN {LogRecord(35, key)} ELSE {})
    \cup (IF parsed = <<>> THEN {LogRecord(42, key)} ELSE {LogRecord(176, key)})
    \cup {LogRecord(153, <<parsed[k].id, key>>) :
             k \in {j \in 1..Len(parsed) : ~parsed[j].is_complete}}
    \cup (IF \E k \in 1..Len(parsed) : ~parsed[k].is_complete
          THEN {LogRecord(183, <<>>)} ELSE {})

\* The records one call of validate_test_cases logs: line 241.
ValidateLog(cases) == {LogRecord(241, cases[k].id) : k \in 1..Len(cases)}

\* A record after a sequence of assignments record[field] = value.
RECURSIVE ApplyWrites(_, _)
ApplyWrites(record, writes) ==
    IF writes = <<>> THEN record
    ELSE ApplyWrites([record EXCEPT ![Head(writes).field] = Head(writes).value],
                     Tail(writes))

\* A scorer that clears the flag of every record it has scored.
ValidateWritesFlag(test_case) == << [field |-> "is_complete", value |-> FALSE] >>

\* The assignments the loop body of validate_test_cases makes to a record,
\* lines 236-282: it reads test_case[...] and test_case.get(...) and
\* assigns to none of it.
ValidateWrites(test_case) == <<>>

\* The assignments the loop body of clean_test_cases makes to a record,
\* lines 384-388: the comprehension builds a new dict.
CleanWrites(test_case) == <<>>

\* The caller's list after validate_test_cases and after clean_test_cases.
ArgumentAfterValidate(cases) ==
    [k \in 1..Len(cases) |-> ApplyWrites(cases[k], ValidateWrites(cases[k]))]

ArgumentAfterClean(cases) ==
    [k \in 1..Len(cases) |-> ApplyWrites(cases[k], CleanWrites(cases[k]))]

-----------------------------------------------------------------------------
(* The caller: it parses a text, scores the records, and runs the          *)
(* utilities over the scored set.                                           *)

Init ==
    /\ pc = "start"
    /\ test_cases_text \in Texts
    /\ ticket_key \in TicketKeys
    /\ test_cases = <<>>
    /\ quality_scores = <<>>
    /\ recommendations = <<>>
    /\ complete = <<>>
    /\ incomplete = <<>>
    /\ cleaned_cases = <<>>
    /\ calls = <<>>
    /\ frames = <<>>
    /\ history = {}
    /\ log = {}
    /\ format_call = <<>>
    /\ parse_call = <<>>
    /\ ticket_call = <<>>

Parse ==
    /\ pc = "start"
    /\ test_cases' = ParseTestCases(test_cases_text, ticket_key)
    /\ log' = log \cup ParseLog(test_cases_text, ticket_key, test_cases')
    /\ pc' = "parsed"
    /\ UNCHANGED <<calls, frames, history>>
    /\ UNCHANGED <<test_cases_text, ticket_key, quality_scores, recommendations,
                   complete, incomplete, cleaned_cases>>
    /\ UNCHANGED stepVars

Validate ==
    /\ pc = "parsed"
    /\ quality_scores' = ValidateTestCases(test_cases)
    /\ test_cases' = ArgumentAfterValidate(test_cases)
    /\ log' = log \cup ValidateLog(test_cases)
    /\ pc' = "validated"
    /\ UNCHANGED <<calls, frames, history>>
    /\ UNCHANGED <<test_cases_text, ticket_key, recommendations,
                   complete, incomplete, cleaned_cases>>
    /\ UNCHANGED stepVars

Improve ==
    /\ pc = "validated"
    /\ recommendations' = ImproveTestCases(test_cases, quality_scores)
    /\ pc' = "improved"
    /\ UNCHANGED callVars
    /\ UNCHANGED <<test_cases_text, ticket_key, test_cases, quality_scores,
                   complete, incomplete, cleaned_cases>>
    /\ UNCHANGED stepVars

Filter ==
    /\ pc = "improved"
    /\ complete' = FilterIncompleteTestCases(test_cases)[1]
    /\ incomplete' = FilterIncompleteTestCases(test_cases)[2]
    /\ pc' = "filtered"
    /\ UNCHANGED callVars
    /\ UNCHANGED <<test_cases_text, ticket_key, test_cases, quality_scores,
                   recommendations, cleaned_cases>>
    /\ UNCHANGED stepVars

Clean ==
    /\ pc = "filtered"
    /\ cleaned_cases' = CleanTestCases(test_cases)
    /\ test_cases' = ArgumentAfterClean(test_cases)
    /\ pc' = "done"
    /\ UNCHANGED callVars
    /\ UNCHANGED <<test_cases_text, ticket_key, quality_scores,
                   recommendations, complete, incomplete>>
    /\ UNCHANGED stepVars

Next == Parse \/ Validate \/ Improve \/ Filter \/ Clean

Spec == Init /\ [][Next]_vars

-----------------------------------------------------------------------------
(* The same caller on texts of one block whose section and number of steps *)
(* range over what the step-count rule tells apart.                        *)

\* Most numbered steps a block of these texts holds.
MaxScoreSteps == 7

ScoreSectionTexts ==
    { <<>>,
      <<"\n", "Section", ":", " ", "Login">>,
      <<"\n", "Section", ":", " ", "Checkout">>,
      <<"\n", "Section", ":", " ", "Login", " ", "Workflow">>,
      <<"\n", "Section", ":", " ", "foo">> }

ScoreTexts ==
    { <<"Test Case", " ", "1", ":">> \o sec \o pre
        \o <<"\n", "Steps", ":">> \o NumberedLines(n) \o exp \o inp :
        sec \in ScoreSectionTexts,
        pre \in { <<>>, <<"\n", "Preconditions", ":", " ", "foo", " ", "logged">> },
        n \in 0..MaxScoreSteps,
        exp \in { <<>>,
                  <<"\n", "Expected Result", ":", " ", "foo", " ", "is", " ", "logged">> },
        inp \in { <<>>, <<"\n", "Input", ":", " ", "invalid">> } }

InitScore ==
    /\ pc = "start"
    /\ test_cases_text \in ScoreTexts
    /\ ticket_key \in TicketKeys
    /\ test_cases = <<>>
    /\ quality_scores = <<>>
    /\ recommendations = <<>>
    /\ complete = <<>>
    /\ incomplete = <<>>
    /\ cleaned_cases = <<>>
    /\ calls = <<>>
    /\ frames = <<>>
    /\ history = {}
    /\ log = {}
    /\ format_call = <<>>
    /\ parse_call = <<>>
    /\ ticket_call = <<>>

SpecScore == InitScore /\ [][Next]_vars

-----------------------------------------------------------------------------
(* Several callers on one service object (app.py, line 142: one            *)
(* TestCaseService for every request).  The names a call assigns           *)
(* (test_cases, matches, idx, quality_scores) are locals of that call; the *)
(* class has no attribute, and the module's logger is the one object the   *)
(* calls share.                                                            *)

\* How many callers share the service, and how many rounds (a parse and a
\* validate of its result) each one makes.
NumCallers == 2

MaxCalls == 2

Callers == 1..NumCallers

\* Texts and ticket keys the callers hand in: a text without an anchor and
\* a text of two blocks.
CallTexts ==
    { <<"foo">>,
      <<"Test Case", " ", "1", ":", " ", "foo", "\n", "\n",
        "Test Case", " ", "2", ":", "\n", "Steps", ":", "\n", "foo">> }

CallKeys == { <<"QA-", "1">>, <<"QA-", "2">> }

\* One frame for every call, as if the locals were attributes of the service.
SharedFrame(c) == 1

\* The frame that holds the locals of caller c's call: its own.
FrameOf(c) == c

EmptyFrame ==
    [matches |-> <<>>, idx |-> 1, test_cases |-> <<>>, quality_scores |-> <<>>]

\* Lines 25-46 with a list that is not started afresh.
EnterParseKeepingList(frame, text) ==
    [matches |-> FindMatches(text), idx |-> 1,
     test_cases |-> frame.test_cases, quality_scores |-> <<>>]

\* Lines 25-46: the locals a call of parse_test_cases starts its loop with.
\* Nothing of what an earlier call left behind is read.
EnterParse(frame, text) ==
    [matches |-> FindMatches(text), idx |-> 1,
     test_cases |-> <<>>, quality_scores |-> <<>>]

\* Lines 234-236: the locals a call of validate_test_cases starts with.
EnterValidate(frame, cases) ==
    [matches |-> <<>>, idx |-> 1, test_cases |-> cases, quality_scores |-> <<>>]

\* The callers, with a mark on every call in progress that a step of
\* caller c has run alongside.
Overlapping(c) ==
    [d \in Callers |->
        IF d # c /\ calls[d].pc # "idle"
        THEN [calls[d] EXCEPT !.overlapped = TRUE]
        ELSE calls[d]]

InitCalls ==
    /\ calls = [c \in Callers |->
                   [pc |-> "idle", test_cases_text |-> <<>>, ticket_key |-> <<>>,
                    parsed |-> <<>>, done |-> 0, overlapped |-> FALSE]]
    /\ frames = [c \in Callers |-> EmptyFrame]
    /\ history = {}
    /\ log = {}
    /\ pc = "start"
    /\ test_cases_text = <<>>
    /\ ticket_key = <<>>
    /\ test_cases = <<>>
    /\ quality_scores = <<>>
    /\ recommendations = <<>>
    /\ complete = <<>>
    /\ incomplete = <<>>
    /\ cleaned_cases = <<>>
    /\ format_call = <<>>
    /\ parse_call = <<>>
    /\ ticket_call = <<>>

\* parse_test_cases up to its loop, lines 25-46.
CallParse(c) ==
    /\ calls[c].pc = "idle"
    /\ calls[c].done < MaxCalls
    /\ \E text \in CallTexts, key \in CallKeys :
        /\ calls' = [Overlapping(c) EXCEPT
                        ![c] = [calls[c] EXCEPT !.pc = "parse",
                                                !.test_cases_text = text,
                                                !.ticket_key = key,
                                                !.parsed = <<>>,
                                                !.overlapped = FALSE]]
        /\ frames' = [frames EXCEPT
                         ![FrameOf(c)] = EnterParse(frames[FrameOf(c)], text)]
        /\ log' = log
                  \cup (IF PrimaryMatchesFrom(StripHeaders(text), 1) = <<>>
                        THEN {LogRecord(35, key)} ELSE {})
                  \cup (IF FindMatches(text) = <<>>
                        THEN {LogRecord(42, key)} ELSE {})
    /\ UNCHANGED history
    /\ UNCHANGED pipelineVars
    /\ UNCHANGED stepVars

\* One turn of the loop of parse_test_cases, lines 46-170.
ParseStep(c) ==
    LET frame == frames[FrameOf(c)]
        record == ParseBlock(frame.idx, frame.matches[frame.idx].test_id,
                             frame.matches[frame.idx].content,
                             calls[c].ticket_key)
    IN  /\ calls[c].pc = "parse"
        /\ frame.idx <= Len(frame.matches)
        /\ frames' = [frames EXCEPT
                         ![FrameOf(c)] =
                             [frame EXCEPT !.idx = frame.idx + 1,
                                           !.test_cases = Append(frame.test_cases, record)]]
        /\ log' = log \cup (IF record.is_complete THEN {}
                            ELSE {LogRecord(153, <<record.id, calls[c].ticket_key>>)})
        /\ calls' = Overlapping(c)
        /\ UNCHANGED history
        /\ UNCHANGED pipelineVars
        /\ UNCHANGED stepVars

\* The return of parse_test_cases: line 43 without a match, lines 176-185.
ParseReturn(c) ==
    LET frame == frames[FrameOf(c)]
    IN  /\ calls[c].pc = "parse"
        /\ frame.idx > Len(frame.matches)
        /\ calls' = [Overlapping(c) EXCEPT
                        ![c] = [calls[c] EXCEPT !.pc = "parsed",
                                                !.parsed = frame.test_cases]]
        /\ log' = log
                  \cup (IF frame.matches = <<>> THEN {}
                        ELSE {LogRecord(176, calls[c].ticket_key)})
                  \cup (IF \E k \in 1..Len(frame.test_cases) :
                               ~frame.test_cases[k].is_complete
                        THEN {LogRecord(183, <<>>)} ELSE {})
        /\ UNCHANGED <<frames, history>>
        /\ UNCHANGED pipelineVars
        /\ UNCHANGED stepVars

\* validate_test_cases up to its loop, lines 234-236, on the list the
\* caller's parse returned.
CallValidate(c) ==
    /\ calls[c].pc = "parsed"
    /\ calls' = [Overlapping(c) EXCEPT ![c] = [calls[c] EXCEPT !.pc = "validate"]]
    /\ frames' = [frames EXCEPT
                     ![FrameOf(c)] = EnterValidate(frames[FrameOf(c)], calls[c].parsed)]
    /\ UNCHANGED <<history, log>>
    /\ UNCHANGED pipelineVars
    /\ UNCHANGED stepVars

\* One turn of the loop of validate_test_cases, lines 236-282.
ValidateStep(c) ==
    LET frame == frames[FrameOf(c)]
    IN  /\ calls[c].pc = "validate"
        /\ frame.idx <= Len(frame.test_cases)
        /\ frames' = [frames EXCEPT
                         ![FrameOf(c)] =
                             [frame EXCEPT
                                 !.idx = frame.idx + 1,
                                 !.test_cases[frame.idx] =
                                     ApplyWrites(frame.test_cases[frame.idx],
                                                 ValidateWrites(frame.test_cases[frame.idx])),
                                 !.quality_scores =
                                     Append(frame.quality_scores,
                                            QualityScore(frame.test_cases[frame.idx]))]]
        /\ log' = log \cup {LogRecord(241, frame.test_cases[frame.idx].id)}
        /\ calls' = Overlapping(c)
        /\ UNCHANGED history
        /\ UNCHANGED pipelineVars
        /\ UNCHANGED stepVars

\* The return of validate_test_cases, line 284.  The caller keeps what the
\* round was given and what it returned.
ValidateReturn(c) ==
    LET frame == frames[FrameOf(c)]
    IN  /\ calls[c].pc = "validate"
        /\ frame.idx > Len(frame.test_cases)
        /\ history' = history \cup
               { [caller |-> c, call |-> calls[c].done + 1,
                  seq |-> Cardinality(history) + 1,
                  test_cases_text |-> calls[c].test_cases_text,
                  ticket_key |-> calls[c].ticket_key,
                  parsed |-> calls[c].parsed,
                  quality_scores |-> frame.quality_scores,
                  overlapped |-> calls[c].overlapped] }
        /\ calls' = [Overlapping(c) EXCEPT
                        ![c] = [calls[c] EXCEPT !.pc = "idle",
                                                !.done = calls[c].done + 1]]
        /\ UNCHANGED <<frames, log>>
        /\ UNCHANGED pipelineVars
        /\ UNCHANGED stepVars

NextCalls ==
    \E c \in Callers :
        \/ CallParse(c)
        \/ ParseStep(c)
        \/ ParseReturn(c)
        \/ CallValidate(c)
        \/ ValidateStep(c)
        \/ ValidateReturn(c)

SpecCalls == InitCalls /\ [][NextCalls]_vars

-----------------------------------------------------------------------------
(* One call of _format_steps, followed line by line.                       *)

\* Most lines a steps text of these calls holds.
MaxFormatLines == 4

\* The lines the steps texts are made of: plain, numbered, empty, blank,
\* indented and numbered, numbered with emphasis markers.
RawStepLines ==
    { <<"foo">>,
      <<"3", ".", " ", "foo">>,
      <<>>,
      <<" ">>,
      <<" ", "1", ".", " ", "foo">>,
      <<"1", ".", " ", "*", "foo", "*">> }

FormatInputs ==
    UNION { { JoinLines(ls) : ls \in [1..n -> RawStepLines] } :
              n \in 0..MaxFormatLines }

InitFormat ==
    /\ format_call \in { [pc |-> "called", steps_text |-> t, step_lines |-> <<>>,
                          formatted_steps |-> <<>>, result |-> <<>>] :
                            t \in FormatInputs }
    /\ parse_call = <<>>
    /\ ticket_call = <<>>
    /\ pc = "start"
    /\ test_cases_text = <<>>
    /\ ticket_key = <<>>
    /\ test_cases = <<>>
    /\ quality_scores = <<>>
    /\ recommendations = <<>>
    /\ complete = <<>>
    /\ incomplete = <<>>
    /\ cleaned_cases = <<>>
    /\ calls = <<>>
    /\ frames = <<>>
    /\ history = {}
    /\ log = {}

\* Lines 204-205: an empty text is returned as it is.
FormatEmpty ==
    /\ format_call.pc = "called"
    /\ format_call.steps_text = <<>>
    /\ format_call' = [format_call EXCEPT !.pc = "returned", !.result = <<>>]
    /\ UNCHANGED <<pipelineVars, callVars, parse_call, ticket_call>>

\* Lines 208-212: the text is cleaned and split into its stripped,
\* non-blank lines.
FormatEnter ==
    /\ format_call.pc = "called"
    /\ format_call.steps_text # <<>>
    /\ format_call' =
           [format_call EXCEPT
               !.pc = "loop",
               !.step_lines = StepLines(CleanFieldContent(format_call.steps_text))]
    /\ UNCHANGED <<pipelineVars, callVars, parse_call, ticket_call>>

\* Lines 214-220: one turn of the loop.
FormatLine ==
    /\ format_call.pc = "loop"
    /\ format_call.step_lines # <<>>
    /\ format_call' =
           [format_call EXCEPT
               !.step_lines = Tail(format_call.step_lines),
               !.formatted_steps =
                   Append(format_call.formatted_steps,
                          NumberedLine(Head(format_call.step_lines),
                                       format_call.formatted_steps))]
    /\ UNCHANGED <<pipelineVars, callVars, parse_call, ticket_call>>

\* Line 222.
FormatReturn ==
    /\ format_call.pc = "loop"
    /\ format_call.step_lines = <<>>
    /\ format_call' =
           [format_call EXCEPT
               !.pc = "returned",
               !.result = JoinLines(format_call.formatted_steps)]
    /\ UNCHANGED <<pipelineVars, callVars, parse_call, ticket_call>>

NextFormat == FormatEmpty \/ FormatEnter \/ FormatLine \/ FormatReturn

SpecFormat == InitFormat /\ [][NextFormat]_vars

-----------------------------------------------------------------------------
(* One call of parse_test_cases, followed block by block, in which the     *)
(* body of the loop may raise.  On a text no statement of the body raises  *)
(* by itself; what raises comes from outside the text (the interpreter     *)
(* running out of memory, a logging handler that fails), so whether a      *)
(* block raises is left open at every turn of the loop.                    *)

\* Most blocks a text of these calls holds.
MaxFaultBlocks == 3

FaultTexts ==
    UNION { { JoinBlocks(bs) : bs \in [1..n -> ComposedBlocks] } :
              n \in 1..MaxFaultBlocks }

InitFaults ==
    /\ parse_call \in { [pc |-> "called", test_cases_text |-> t, ticket_key |-> k,
                         matches |-> <<>>, idx |-> 0, test_cases |-> <<>>,
                         parsed_count |-> 0, raised |-> {}, result |-> <<>>] :
                           t \in FaultTexts, k \in TicketKeys }
    /\ format_call = <<>>
    /\ ticket_call = <<>>
    /\ pc = "start"
    /\ test_cases_text = <<>>
    /\ ticket_key = <<>>
    /\ test_cases = <<>>
    /\ quality_scores = <<>>
    /\ recommendations = <<>>
    /\ complete = <<>>
    /\ incomplete = <<>>
    /\ cleaned_cases = <<>>
    /\ calls = <<>>
    /\ frames = <<>>
    /\ history = {}
    /\ log = {}

\* An except branch that gives up the rest of the blocks.
AfterRaiseAbort(call) ==
    [call EXCEPT !.idx = Len(call.matches) + 1,
                 !.raised = call.raised \cup {call.idx}]

\* The frame after the except branch, lines 172-174: nothing is appended,
\* parsed_count stays, and the loop goes on with the next block.  `raised`
\* remembers which blocks raised.
AfterRaise(call) ==
    [call EXCEPT !.idx = call.idx + 1,
                 !.raised = call.raised \cup {call.idx}]

\* Lines 25-43: the text is segmented; without a block the call returns [].
FaultsNoMatch ==
    /\ parse_call.pc = "called"
    /\ FindMatches(parse_call.test_cases_text) = <<>>
    /\ parse_call' = [parse_call EXCEPT !.pc = "returned", !.result = <<>>]
    /\ log' = log \cup {LogRecord(35, parse_call.ticket_key),
                        LogRecord(42, parse_call.ticket_key)}
    /\ UNCHANGED <<pipelineVars, calls, frames, history, format_call, ticket_call>>

\* Lines 25-46: the text is segmented and the loop begins.
FaultsEnter ==
    /\ parse_call.pc = "called"
    /\ FindMatches(parse_call.test_cases_text) # <<>>
    /\ parse_call' = [parse_call EXCEPT
                         !.pc = "loop",
                         !.matches = FindMatches(parse_call.test_cases_text),
                         !.idx = 1]
    /\ log' = log \cup
                 (IF PrimaryMatchesFrom(StripHeaders(parse_call.test_cases_text), 1) = <<>>
                  THEN {LogRecord(35, parse_call.ticket_key)} ELSE {})
    /\ UNCHANGED <<pipelineVars, calls, frames, history, format_call, ticket_call>>

\* Lines 47-170: the body runs to its end: a record is appended and counted.
FaultsBlockParsed ==
    /\ parse_call.pc = "loop"
    /\ parse_call.idx <= Len(parse_call.matches)
    /\ LET record == ParseBlock(parse_call.idx,
                                parse_call.matches[parse_call.idx].test_id,
                                parse_call.matches[parse_call.idx].content,
                                parse_call.ticket_key)
       IN  /\ parse_call' = [parse_call EXCEPT
                                !.idx = parse_call.idx + 1,
                                !.test_cases = Append(parse_call.test_cases, record),
                                !.parsed_count = parse_call.parsed_count + 1]
           /\ log' = log \cup
                        (IF record.is_complete THEN {}
                         ELSE {LogRecord(153, <<record.id, parse_call.ticket_key>>)})
    /\ UNCHANGED <<pipelineVars, calls, frames, history, format_call, ticket_call>>

\* Lines 47-174: a statement of the body raises before the append of line
\* 159, and the except branch logs the error.
FaultsBlockRaises ==
    /\ parse_call.pc = "loop"
    /\ parse_call.idx <= Len(parse_call.matches)
    /\ parse_call' = AfterRaise(parse_call)
    /\ log' = log \cup {LogRecord(173, <<parse_call.idx, parse_call.ticket_key>>)}
    /\ UNCHANGED <<pipelineVars, calls, frames, history, format_call, ticket_call>>

\* Lines 176-185: the counts are logged and the list is returned.
FaultsReturn ==
    /\ parse_call.pc = "loop"
    /\ parse_call.idx > Len(parse_call.matches)
    /\ parse_call' = [parse_call EXCEPT !.pc = "returned",
                                        !.result = parse_call.test_cases]
    /\ log' = log
                 \cup {LogRecord(176, <<parse_call.parsed_count, parse_call.ticket_key>>)}
                 \cup (IF parse_call.parsed_count < Len(parse_call.matches)
                       THEN {LogRecord(178, <<Len(parse_call.matches)
                                                - parse_call.parsed_count,
                                              parse_call.ticket_key>>)}
                       ELSE {})
                 \cup (IF \E k \in 1..Len(parse_call.test_cases) :
                              ~parse_call.test_cases[k].is_complete
                       THEN {LogRecord(183, <<>>)} ELSE {})
    /\ UNCHANGED <<pipelineVars, calls, frames, history, format_call, ticket_call>>

NextFaults ==
    \/ FaultsNoMatch
    \/ FaultsEnter
    \/ FaultsBlockParsed
    \/ FaultsBlockRaises
    \/ FaultsReturn

SpecFaults == InitFaults /\ [][NextFaults]_vars

-----------------------------------------------------------------------------
(* One run of _process_ready_for_qa_ticket (src/app.py, lines 337-401),    *)
(* followed call by call.  What the Jira, AI and Sheets services answer is *)
(* left open: each call may report success, report failure through its     *)
(* return value, or, where the service does not catch everything, raise.   *)

\* The texts the AI service may return.
GeneratedTexts == {<<"foo">>} \cup ComposedTexts

\* What jira_service.get_issue may return: None, an object without fields,
\* a ticket without a description, a ticket with one.
NoTicket == [found |-> FALSE, has_fields |-> FALSE, description |-> <<>>]

Tickets ==
    { NoTicket,
      [found |-> TRUE, has_fields |-> FALSE, description |-> <<>>],
      [found |-> TRUE, has_fields |-> TRUE, description |-> <<>>],
      [found |-> TRUE, has_fields |-> TRUE, description |-> <<"foo">>] }

\* ticket_description of line 358
TicketDescription(ticket) ==
    IF ticket.has_fields THEN ticket.description ELSE <<>>

InitTicket ==
    /\ ticket_call \in { [pc |-> "fetch", ticket_key |-> k, ticket |-> NoTicket,
                          test_cases_text |-> <<>>, parsed_test_cases |-> <<>>,
                          quality_scores |-> <<>>, sheet_result |-> FALSE,
                          jira_result |-> FALSE, result |-> FALSE,
                          raised |-> FALSE, trace |-> <<>>] :
                            k \in TicketKeys }
    /\ format_call = <<>>
    /\ parse_call = <<>>
    /\ pc = "start"
    /\ test_cases_text = <<>>
    /\ ticket_key = <<>>
    /\ test_cases = <<>>
    /\ quality_scores = <<>>
    /\ recommendations = <<>>
    /\ complete = <<>>
    /\ incomplete = <<>>
    /\ cleaned_cases = <<>>
    /\ calls = <<>>
    /\ frames = <<>>
    /\ history = {}
    /\ log = {}

\* The frame with one more service or TestCaseService call in its trace.
Invoked(call, step) == [call EXCEPT !.trace = Append(call.trace, step)]

\* A return statement of the pipeline.
Returned(call, value) == [call EXCEPT !.pc = "returned", !.result = value]

\* A call that raised: control goes to the except clause of line 400.
Raised(call) == [call EXCEPT !.pc = "except", !.raised = TRUE]

\* A pipeline that uploads whatever the parser returned.
AfterParseAlways(call) == [call EXCEPT !.pc = "score"]

\* Lines 375-377: an empty list from the parser ends the run with False.
AfterParse(call) ==
    IF call.parsed_test_cases = <<>> THEN Returned(call, FALSE)
    ELSE [call EXCEPT !.pc = "score"]

\* Lines 350-354: get_issue returns a ticket or None; it catches JIRAError
\* only, so another exception of the client comes through.
TicketFetch ==
    /\ ticket_call.pc = "fetch"
    /\ \/ \E t \in Tickets :
              LET call == [Invoked(ticket_call, "fetch") EXCEPT !.ticket = t]
              IN  ticket_call' = IF ~t.found THEN Returned(call, FALSE)
                                 ELSE [call EXCEPT !.pc = "description"]
       \/ ticket_call' = Raised(Invoked(ticket_call, "fetch"))
    /\ UNCHANGED <<pipelineVars, callVars, format_call, parse_call>>

\* Lines 357-362: a ticket without a description ends the run with False.
TicketExtract ==
    /\ ticket_call.pc = "description"
    /\ ticket_call' = IF TicketDescription(ticket_call.ticket) = <<>>
                      THEN Returned(ticket_call, FALSE)
                      ELSE [ticket_call EXCEPT !.pc = "generate"]
    /\ UNCHANGED <<pipelineVars, callVars, format_call, parse_call>>

\* Lines 365-370: generate_test_cases returns a text or None (the empty
\* text here), or raises ValueError for a description that is not a str.
TicketGenerate ==
    /\ ticket_call.pc = "generate"
    /\ \/ \E t \in GeneratedTexts \cup {<<>>} :
              LET call == [Invoked(ticket_call, "generate") EXCEPT
                              !.test_cases_text = t]
              IN  ticket_call' = IF t = <<>> THEN Returned(call, FALSE)
                                 ELSE [call EXCEPT !.pc = "parse"]
       \/ ticket_call' = Raised(Invoked(ticket_call, "generate"))
    /\ UNCHANGED <<pipelineVars, callVars, format_call, parse_call>>

\* Lines 373-377.
TicketParse ==
    /\ ticket_call.pc = "parse"
    /\ ticket_call' =
           AfterParse([Invoked(ticket_call, "parse") EXCEPT
                          !.parsed_test_cases =
                              ParseTestCases(ticket_call.test_cases_text,
                                             ticket_call.ticket_key)])
    /\ UNCHANGED <<pipelineVars, callVars, format_call, parse_call>>

\* Line 380.
TicketScore ==
    /\ ticket_call.pc = "score"
    /\ ticket_call' =
           [Invoked(ticket_call, "score") EXCEPT
               !.pc = "upload",
               !.quality_scores = ValidateTestCases(ticket_call.parsed_test_cases)]
    /\ UNCHANGED <<pipelineVars, callVars, format_call, parse_call>>

\* Lines 383-387: upload_test_cases catches every exception and answers
\* True or False.
TicketUpload ==
    /\ ticket_call.pc = "upload"
    /\ \E ok \in BOOLEAN :
           LET call == [Invoked(ticket_call, "upload") EXCEPT !.sheet_result = ok]
           IN  ticket_call' = IF ~ok THEN Returned(call, FALSE)
                              ELSE [call EXCEPT !.pc = "comment"]
    /\ UNCHANGED <<pipelineVars, callVars, format_call, parse_call>>

\* Lines 390-396: add_comment answers True or False; it catches JIRAError
\* only, so another exception of the client comes through.  Its answer is
\* logged and not acted upon.
TicketComment ==
    /\ ticket_call.pc = "comment"
    /\ \/ \E ok \in BOOLEAN :
              ticket_call' = [Invoked(ticket_call, "comment") EXCEPT
                                 !.pc = "commented", !.jira_result = ok]
       \/ ticket_call' = Raised(Invoked(ticket_call, "comment"))
    /\ UNCHANGED <<pipelineVars, callVars, format_call, parse_call>>

\* Line 398.
TicketReturn ==
    /\ ticket_call.pc = "commented"
    /\ ticket_call' = Returned(ticket_call, TRUE)
    /\ UNCHANGED <<pipelineVars, callVars, format_call, parse_call>>

\* Lines 400-402: the exception is logged and the run returns False.
TicketExcept ==
    /\ ticket_call.pc = "except"
    /\ ticket_call' = Returned(ticket_call, FALSE)
    /\ UNCHANGED <<pipelineVars, callVars, format_call, parse_call>>

NextTicket ==
    \/ TicketFetch
    \/ TicketExtract
    \/ TicketGenerate
    \/ TicketParse
    \/ TicketScore
    \/ TicketUpload
    \/ TicketComment
    \/ TicketReturn
    \/ TicketExcept

SpecTicket == InitTicket /\ [][NextTicket]_vars

-----------------------------------------------------------------------------
(* Properties.                                                             *)

Parsed == pc # "start"

Validated == pc \in {"validated", "improved", "filtered", "done"}

Improved == pc \in {"improved", "filtered", "done"}

Filtered == pc \in {"filtered", "done"}

\* The elements of a set of numbers in increasing order.
RECURSIVE Ascending(_)
Ascending(S) == IF S = {} THEN <<>> ELSE <<Min(S)>> \o Ascending(S \ {Min(S)})

\* Where the anchors stand in a text, and the label each one carries.
PrimaryAnchors(s) == {a \in 1..Len(s) : IsPrimaryAnchor(s, a)}

SecondaryAnchors(s) == {a \in 1..Len(s) : IsSecondaryAnchor(s, a)}

PrimaryLabel(s, a) == SubSeq(s, a + 2, SkipWord(s, a + 2) - 1)

SecondaryLabel(s, a) == SubSeq(s, a, SkipDigits(s, a + 1) - 1)

\* The ids the anchors of a text announce, in text order.
AnnouncedIds(s) ==
    IF PrimaryAnchors(s) # {}
    THEN [k \in 1..Cardinality(PrimaryAnchors(s)) |->
             <<"TC-">> \o PrimaryLabel(s, Ascending(PrimaryAnchors(s))[k])]
    ELSE [k \in 1..Cardinality(SecondaryAnchors(s)) |->
             <<"TC-">> \o SecondaryLabel(s, Ascending(SecondaryAnchors(s))[k])]

\* C1: the scorer returns one entry per record, and entry i carries the id
\* of record i.
C1_ScoresAligned ==
    Validated =>
        /\ Len(quality_scores) = Len(test_cases)
        /\ \A i \in 1..Len(test_cases) :
               quality_scores[i].test_case_id = test_cases[i].id

C1_Witness ==
    /\ Validated
    /\ Len(test_cases) = 2
    /\ test_cases[1].id # test_cases[2].id
    /\ ~test_cases[1].is_complete

\* C2 as stated: a raw text that holds neither anchor parses to the empty
\* sequence.
C2_Original ==
    Parsed =>
        (PrimaryAnchors(test_cases_text) = {}
         /\ SecondaryAnchors(test_cases_text) = {}
            => test_cases = <<>>)

\* C2, amended: a text that holds neither anchor once its markdown header
\* markers are stripped parses to the empty sequence, and any other text
\* parses to at most one record per anchor of the pattern in use.
C2_EmptyWithoutAnchors ==
    Parsed =>
        LET s == StripHeaders(test_cases_text)
        IN  /\ (PrimaryAnchors(s) = {} /\ SecondaryAnchors(s) = {}
                   => test_cases = <<>>)
            /\ Len(test_cases) <= Len(AnnouncedIds(s))

C2_Witness ==
    /\ Parsed
    /\ test_cases_text # <<>>
    /\ PrimaryAnchors(StripHeaders(test_cases_text)) = {}
    /\ SecondaryAnchors(StripHeaders(test_cases_text)) = {}
    /\ test_cases = <<>>

\* C3: the records come in the order of their anchors in the text: record i
\* carries the label of the i-th anchor from the left.
C3_RecordsInTextOrder ==
    Parsed =>
        \A i \in 1..Len(test_cases) :
            /\ i <= Len(AnnouncedIds(StripHeaders(test_cases_text)))
            /\ test_cases[i].id = AnnouncedIds(StripHeaders(test_cases_text))[i]

C3_Witness ==
    /\ Parsed
    /\ Len(test_cases) = 2
    /\ test_cases[1].id = <<"TC-", "2">>
    /\ test_cases[2].id = <<"TC-", "1">>

\* C4: a record is flagged complete exactly when its preconditions, steps
\* and expected result, as emitted, are all non-empty.
C4_CompleteIffAllPresent ==
    Parsed =>
        \A i \in 1..Len(test_cases) :
            test_cases[i].is_complete <=>
                /\ test_cases[i].preconditions # <<>>
                /\ test_cases[i].steps # <<>>
                /\ test_cases[i].expected_result # <<>>

C4_Witness ==
    /\ Parsed
    /\ \E i \in 1..Len(test_cases) : test_cases[i].is_complete
    /\ \E i \in 1..Len(test_cases) :
           /\ ~test_cases[i].is_complete
           /\ test_cases[i].steps # <<>>
           /\ test_cases[i].expected_result = <<>>

\* C5: renumbering law: line k of a record's steps starts with the numeral
\* k and a period, whatever the numbering of the source.
C5_RenumberingLaw ==
    Parsed =>
        \A i \in 1..Len(test_cases) :
            test_cases[i].steps # <<>> =>
                LET lines == SplitLines(test_cases[i].steps)
                IN  \A k \in 1..Len(lines) :
                        SubSeq(lines[k], 1, Len(ToStr(k)) + 1)
                            = ToStr(k) \o <<".">>

\* The criteria a record meets, counted from the record's fields.
MetCount(tc) ==
    Cardinality({k \in 1..Len(Criteria(tc)) : Criteria(tc)[k].value})

\* C6: a record's score is 100 * k / 7 for the number k of criteria it
\* meets, so it lies in 0..100 and takes one of eight levels.
C6_ScoreIsSevenths ==
    Validated =>
        \A i \in 1..Len(quality_scores) :
            LET score == quality_scores[i].score
                k == MetCount(test_cases[i])
            IN  /\ k \in 0..7
                /\ score.den > 0
                /\ score.num * 7 = 100 * k * score.den
                /\ 0 <= score.num /\ score.num <= 100 * score.den

C6_Witness ==
    /\ Validated
    /\ \E i \in 1..Len(quality_scores) :
           /\ MetCount(test_cases[i]) = 3
           /\ quality_scores[i].score = [num |-> 300, den |-> 7]

\* The criteria in their order of declaration.
DeclaredCriteria ==
    <<"has_preconditions", "has_minimum_steps", "has_appropriate_step_count",
      "has_expected_result", "has_input_data", "covers_multiple_scenarios",
      "is_complete">>

\* C7: areas_for_improvement lists exactly the criteria that are false, each
\* once, in declaration order; its length is 7 minus the criteria met.
C7_AreasAreFailedCriteria ==
    Validated =>
        \A i \in 1..Len(quality_scores) :
            LET areas == quality_scores[i].areas_for_improvement
                failed == {k \in 1..7 : ~Criteria(test_cases[i])[k].value}
            IN  /\ Len(areas) = 7 - MetCount(test_cases[i])
                /\ Len(areas) = Cardinality(failed)
                /\ \A j \in 1..Len(areas) :
                       areas[j] = DeclaredCriteria[Ascending(failed)[j]]

C7_Witness ==
    /\ Validated
    /\ \E i \in 1..Len(quality_scores) :
           quality_scores[i].areas_for_improvement
               = <<"has_minimum_steps", "has_appropriate_step_count",
                   "has_input_data">>

\* C8: incomplete_fields is empty for a complete record; for an incomplete
\* one it lists those of preconditions, steps, expected_result that are
\* empty, in that order.
C8_IncompleteFieldsAreEmptyOnes ==
    Validated =>
        \A i \in 1..Len(quality_scores) :
            LET tc == test_cases[i]
                required == <<"preconditions", "steps", "expected_result">>
                empty == {k \in 1..3 : tc[required[k]] = <<>>}
                wanted == IF tc.is_complete THEN {} ELSE empty
                fields == quality_scores[i].incomplete_fields
            IN  /\ Len(fields) = Cardinality(wanted)
                /\ \A j \in 1..Len(fields) :
                       fields[j] = required[Ascending(wanted)[j]]

C8_Witness ==
    /\ Validated
    /\ \E i \in 1..Len(quality_scores) :
           quality_scores[i].incomplete_fields
               = <<"preconditions", "expected_result">>
    /\ \E i \in 1..Len(quality_scores) :
           test_cases[i].is_complete /\ quality_scores[i].incomplete_fields = <<>>

\* The entries that call for a recommendation: a score under 60, or a
\* missing field.
Qualifying(scores) ==
    {i \in 1..Len(scores) :
        \/ scores[i].score.num < 60 * scores[i].score.den
        \/ scores[i].incomplete_fields # <<>>}

\* C9: improve_test_cases yields one recommendation for each entry whose
\* score is under 60 or whose incomplete_fields is not empty, none for the
\* others, in the order of the entries.
C9_RecommendationsForQualifying ==
    Improved =>
        /\ Len(recommendations) = Cardinality(Qualifying(quality_scores))
        /\ \A k \in 1..Len(recommendations) :
               recommendations[k][1] =
                   "Test Case "
                   \o Cat(quality_scores[Ascending(Qualifying(quality_scores))[k]]
                              .test_case_id)
                   \o " needs improvement in:"

C9_Witness ==
    /\ Improved
    /\ Len(quality_scores) = 2
    /\ Len(recommendations) = 1
    /\ Qualifying(quality_scores) = {2}

\* C10: filter_incomplete_test_cases is a stable partition: the complete
\* records, in input order, and the incomplete ones, in input order.
C10_StablePartition ==
    Filtered =>
        LET yes == {i \in 1..Len(test_cases) : test_cases[i].is_complete}
            no == {i \in 1..Len(test_cases) : ~test_cases[i].is_complete}
        IN  /\ Len(complete) = Cardinality(yes)
            /\ Len(incomplete) = Cardinality(no)
            /\ Len(complete) + Len(incomplete) = Len(test_cases)
            /\ \A k \in 1..Len(complete) :
                   complete[k] = test_cases[Ascending(yes)[k]]
            /\ \A k \in 1..Len(incomplete) :
                   incomplete[k] = test_cases[Ascending(no)[k]]

C10_Witness ==
    /\ Filtered
    /\ Len(complete) = 1
    /\ Len(incomplete) = 1
    /\ test_cases[1] = incomplete[1]
    /\ test_cases[2] = complete[1]

\* C11: two calls of parse_test_cases with the same text and the same ticket
\* key return the same list, whatever calls ran between them.
C11_ParseIdempotent ==
    \A h1 \in history : \A h2 \in history :
        (h1.test_cases_text = h2.test_cases_text /\ h1.ticket_key = h2.ticket_key)
            => h1.parsed = h2.parsed

C11_Witness ==
    \E h1 \in history : \E h2 \in history : \E h3 \in history :
        /\ h1.caller = h2.caller
        /\ h1.seq < h3.seq /\ h3.seq < h2.seq
        /\ h1.test_cases_text = h2.test_cases_text
        /\ h1.ticket_key = h2.ticket_key
        /\ h3.test_cases_text # h1.test_cases_text
        /\ Len(h1.parsed) = 2
        /\ h2.parsed = h1.parsed

\* What parse_test_cases returns for a text and a key when the call runs
\* alone, and what validate_test_cases then returns for that list.
ParsedAlone ==
    [text \in CallTexts, key \in CallKeys |-> ParseTestCases(text, key)]

ValidatedAlone ==
    [text \in CallTexts, key \in CallKeys |->
        ValidateTestCases(ParseTestCases(text, key))]

\* C17: with the calls of several callers interleaved on one service, every
\* call computes what it computes when it runs alone: the list a parse has
\* built so far and returns, and the scores a validate has built so far and
\* returns, are those of the uninterrupted call on the same arguments.
C17_CallsAreIsolated ==
    /\ \A h \in history :
           /\ h.parsed = ParsedAlone[h.test_cases_text, h.ticket_key]
           /\ h.quality_scores = ValidatedAlone[h.test_cases_text, h.ticket_key]
    /\ \A c \in Callers :
           LET frame == frames[FrameOf(c)]
               parsed == ParsedAlone[calls[c].test_cases_text, calls[c].ticket_key]
               scores == ValidatedAlone[calls[c].test_cases_text, calls[c].ticket_key]
           IN  /\ calls[c].pc = "parse"
                   => /\ frame.idx <= Len(parsed) + 1
                      /\ frame.test_cases = SubSeq(parsed, 1, frame.idx - 1)
               /\ calls[c].pc \in {"parsed", "validate"}
                   => calls[c].parsed = parsed
               /\ calls[c].pc = "validate"
                   => /\ frame.idx <= Len(scores) + 1
                      /\ frame.quality_scores = SubSeq(scores, 1, frame.idx - 1)

C17_Witness ==
    /\ \E h \in history :
           /\ h.overlapped
           /\ Len(h.parsed) = 2
           /\ Len(h.quality_scores) = 2
    /\ \E c \in Callers : \E d \in Callers :
           /\ c # d
           /\ calls[c].pc = "parse" /\ frames[FrameOf(c)].idx = 2
           /\ calls[d].pc = "validate" /\ frames[FrameOf(d)].idx = 2

\* A section that names a simple operation, and one that names a complex one.
IsSimpleSection(section) ==
    \E k \in 1..Len(simple_sections) : Contains(section, simple_sections[k])

IsComplexSection(section) ==
    \E k \in 1..Len(complex_sections) : Contains(section, complex_sections[k])

\* The scorer found the step count of record k appropriate.
Appropriate(k) ==
    \A a \in 1..Len(quality_scores[k].areas_for_improvement) :
        quality_scores[k].areas_for_improvement[a] # "has_appropriate_step_count"

\* C16 as stated: the step count is appropriate exactly when the section is
\* simple and the count is in [3,6], or the section is complex and the count
\* is at least 5, or the section is neither and the count is at least 3.
C16_Original ==
    Validated =>
        \A k \in 1..Len(test_cases) :
            LET section == test_cases[k].section
                n == StepCount(test_cases[k].steps)
            IN  Appropriate(k) <=>
                    \/ IsSimpleSection(section) /\ 3 <= n /\ n <= 6
                    \/ IsComplexSection(section) /\ n >= 5
                    \/ ~IsSimpleSection(section) /\ ~IsComplexSection(section)
                       /\ n >= 3

\* C16, amended: a section that names a simple operation is judged as simple
\* even when it names a complex one too; the complex rule is for the
\* sections that name no simple operation.  Login with 4 steps is
\* appropriate, Checkout with 4 steps is not.
C16_StepCountRule ==
    Validated =>
        \A k \in 1..Len(test_cases) :
            LET section == test_cases[k].section
                n == StepCount(test_cases[k].steps)
            IN  /\ Appropriate(k) <=>
                       \/ IsSimpleSection(section) /\ 3 <= n /\ n <= 6
                       \/ ~IsSimpleSection(section) /\ IsComplexSection(section)
                          /\ n >= 5
                       \/ ~IsSimpleSection(section) /\ ~IsComplexSection(section)
                          /\ n >= 3
                /\ (section = <<"Login">> /\ n = 4) => Appropriate(k)
                /\ (section = <<"Checkout">> /\ n = 4) => ~Appropriate(k)

C16_Witness ==
    /\ Validated
    /\ Len(test_cases) = 1
    /\ test_cases[1].section = <<"Login", " ", "Workflow">>
    /\ StepCount(test_cases[1].steps) = 7
    /\ ~Appropriate(1)

\* An anchor whose label is blank: "Test Case", whitespace, a colon.
BlankAnchors(s) ==
    {a \in 1..Len(s) :
        /\ At(s, a) = "Test Case" /\ At(s, a + 1) = " "
        /\ At(s, SkipSpace(s, a + 1)) = ":"}

\* The 1-based position of the block at a among the blocks of the text.
BlockPosition(s, a) ==
    Cardinality({b \in PrimaryAnchors(s) \cup BlankAnchors(s) : b <= a})

\* C12 (Scenario E): a block whose label is blank yields a record, and the
\* record's id is the prefix with the block's position in three digits.
C12_BlankLabelGetsPositionId ==
    Parsed =>
        LET s == StripHeaders(test_cases_text)
        IN  \A a \in BlankAnchors(s) :
                /\ BlockPosition(s, a) <= Len(test_cases)
                /\ test_cases[BlockPosition(s, a)].id
                       = <<"TC-">> \o Pad3(BlockPosition(s, a))

\* The labels of the blocks of a text, in text order.
SourceLabels(s) ==
    IF PrimaryAnchors(s) # {}
    THEN [k \in 1..Cardinality(PrimaryAnchors(s)) |->
             Cat(PrimaryLabel(s, Ascending(PrimaryAnchors(s))[k]))]
    ELSE [k \in 1..Cardinality(SecondaryAnchors(s)) |->
             Cat(SecondaryLabel(s, Ascending(SecondaryAnchors(s))[k]))]

\* C13: when the labels of the blocks of a text differ from one another, so
\* do the ids of the records.
C13_DistinctLabelsDistinctIds ==
    Parsed =>
        LET labels == SourceLabels(StripHeaders(test_cases_text))
        IN  (\A i \in 1..Len(labels) : \A j \in 1..Len(labels) :
                 i # j => labels[i] # labels[j])
            => \A i \in 1..Len(test_cases) : \A j \in 1..Len(test_cases) :
                   i # j => Cat(test_cases[i].id) # Cat(test_cases[j].id)

C13_Witness ==
    /\ Parsed
    /\ Len(test_cases) = 2
    /\ SourceLabels(StripHeaders(test_cases_text)) = <<"1", "2">>
    /\ Cat(test_cases[1].id) = "TC-1"
    /\ Cat(test_cases[2].id) = "TC-2"

\* The text of block k as the extractors see it, line 58.
BlockContent(k) ==
    CollapseNewlines(Strip(FindMatches(test_cases_text)[k].content))

\* What the preconditions pattern captures in a block before any cleanup.
RawPreconditions(content) ==
    IF Leftmost(content, "Preconditions?:") = 0 THEN <<>>
    ELSE LazyGroup(content,
                   SkipSpace(content, Leftmost(content, "Preconditions?:") + 2),
                   "preconditions")

\* Inside a text stand some words, then "Steps:" and a numbered list.
HoldsNestedSteps(text) ==
    /\ Leftmost(text, "Steps:") # 0
    /\ Strip(SplitFirst(text, "Steps:")) # <<>>
    /\ HasNumberedList(Strip(SplitSecond(text, "Steps:")))

\* C14 (Scenario A): when the preconditions of a block run on over "Steps:"
\* and the step list, the record has the steps in steps, and preconditions
\* that are not empty and hold no "Steps:".
C14_NestedStepsMovedOut ==
    Parsed =>
        \A k \in 1..Len(test_cases) :
            HoldsNestedSteps(RawPreconditions(BlockContent(k)))
                => /\ test_cases[k].steps # <<>>
                   /\ test_cases[k].preconditions # <<>>
                   /\ Leftmost(test_cases[k].preconditions, "Steps:") = 0

\* An expected-result marker, in either capitalisation, with its colon.
IsInlineMarker(s, i) ==
    At(s, i) \in {"Expected Result", "expected result"} /\ At(s, i + 1) = ":"

\* The block's one expected-result marker stands after its steps label, on
\* a line of the steps text, and text follows it.
HasInlineExpectedResult(content) ==
    LET markers == {i \in 1..Len(content) : IsInlineMarker(content, i)}
        steps_at == Leftmost(content, "Steps?:")
    IN  /\ Cardinality(markers) = 1
        /\ steps_at # 0
        /\ \A i \in markers :
               /\ i > steps_at
               /\ Strip(SubSeq(content, steps_at + 2, i - 1)) # <<>>
               /\ Strip(SubSeq(content, i + 2, Len(content))) # <<>>

\* C15 (Scenario B): a block whose expected result is announced only by a
\* marker inside its steps text yields a record with an expected result
\* and with steps that hold no marker.
C15_InlineMarkerRecovered ==
    Parsed =>
        \A k \in 1..Len(test_cases) :
            HasInlineExpectedResult(BlockContent(k))
                => /\ test_cases[k].expected_result # <<>>
                   /\ \A i \in 1..Len(test_cases[k].steps) :
                          ~IsInlineMarker(test_cases[k].steps, i)

\* C18: a call of validate_test_cases leaves the list it is given, and every
\* field of every record of it, as they were.
C18_ValidateLeavesInput ==
    [][Validate => test_cases' = test_cases]_vars

C18_Witness ==
    /\ pc = "validated"
    /\ Len(test_cases) = 2
    /\ Len(quality_scores) = 2
    /\ test_cases[1].is_complete
    /\ ~test_cases[2].is_complete

\* The line a recommendation gives to a missing field or a failed criterion.
LineOf(name) ==
    CASE name = "preconditions" -> "  * Preconditions"
      [] name = "steps" -> "  * Steps"
      [] name = "expected_result" -> "  * Expected result"
      [] name = "has_preconditions" -> "  * Preconditions"
      [] name = "has_minimum_steps" -> "  * Minimum steps"
      [] name = "has_appropriate_step_count" -> "  * Appropriate step count"
      [] name = "has_expected_result" -> "  * Expected result"
      [] name = "has_input_data" -> "  * Input data"
      [] name = "covers_multiple_scenarios" -> "  * Covers multiple scenarios"
      [] name = "is_complete" -> "  * Is complete"

\* What C19 lets a recommendation for a score entry be: the heading, the
\* missing fields under their heading, then the failed criteria without
\* is_complete under theirs, each list in the order of the entry.
ExpectedRecommendation(score_info) ==
    LET fields == score_info.incomplete_fields
        areas == SelectSeq(score_info.areas_for_improvement,
                           LAMBDA a : a # "is_complete")
    IN  <<"Test Case " \o Cat(score_info.test_case_id) \o " needs improvement in:">>
        \o (IF fields = <<>> THEN <<>>
            ELSE <<"- Missing fields that need completion:">>
                 \o [k \in 1..Len(fields) |-> LineOf(fields[k])])
        \o (IF score_info.areas_for_improvement = <<>> THEN <<>>
            ELSE <<"- Areas for improvement:">>
                 \o [k \in 1..Len(areas) |-> LineOf(areas[k])])

\* C19: a recommendation lists the missing fields before the failed
\* criteria, the failed criteria in the order of areas_for_improvement, and
\* never is_complete.
C19_FieldsThenAreas ==
    Improved =>
        /\ Len(recommendations) = Cardinality(Qualifying(quality_scores))
        /\ \A k \in 1..Len(recommendations) :
               /\ recommendations[k]
                      = ExpectedRecommendation(
                            quality_scores[Ascending(Qualifying(quality_scores))[k]])
               /\ \A n \in 1..Len(recommendations[k]) :
                      recommendations[k][n] # LineOf("is_complete")

C19_Witness ==
    /\ Improved
    /\ Len(recommendations) >= 1
    /\ quality_scores[1].areas_for_improvement
           = <<"has_preconditions", "has_minimum_steps",
               "has_appropriate_step_count", "has_input_data",
               "covers_multiple_scenarios", "is_complete">>
    /\ recommendations[1]
           = <<"Test Case TC-1 needs improvement in:",
               "- Missing fields that need completion:",
               "  * Preconditions",
               "- Areas for improvement:",
               "  * Preconditions",
               "  * Minimum steps",
               "  * Appropriate step count",
               "  * Input data",
               "  * Covers multiple scenarios">>

\* C20: clean_test_cases returns, in order, each record it is given without
\* its is_complete field and with every other field as it is, and leaves
\* the records it is given as they were.
C20_CleanDropsOnlyFlag ==
    [][Clean =>
          /\ test_cases' = test_cases
          /\ Len(cleaned_cases') = Len(test_cases)
          /\ \A k \in 1..Len(test_cases) :
                 /\ DOMAIN cleaned_cases'[k] = DOMAIN test_cases[k] \ {"is_complete"}
                 /\ \A f \in DOMAIN cleaned_cases'[k] :
                        cleaned_cases'[k][f] = test_cases[k][f]]_vars

C20_Witness ==
    /\ pc = "done"
    /\ Len(cleaned_cases) = 2
    /\ Len(test_cases) = 2
    /\ "is_complete" \in DOMAIN test_cases[1]
    /\ DOMAIN cleaned_cases[1]
           = {"id", "ticket_key", "section", "preconditions", "steps",
              "expected_result", "input_data", "notes"}
    /\ cleaned_cases[2].steps = test_cases[2].steps
    /\ cleaned_cases[2].steps # <<>>

\* The bare 'ID-<digits>:' tokens of a text: the secondary anchors that are
\* not the label of a primary anchor.
BareIdTokens(s) ==
    {a \in SecondaryAnchors(s) : ~(a > 2 /\ IsPrimaryAnchor(s, a - 2))}

\* C22: the secondary pattern segments the text only when the primary
\* pattern finds no block. With a primary anchor in the text there is one
\* record per primary anchor, carrying that anchor's label, so no bare
\* 'ID-<digits>:' token starts a block; without one there is one record per
\* secondary anchor, carrying its token; with neither the result is empty.
C22_SecondaryOnlyWithoutPrimary ==
    Parsed =>
        LET s == StripHeaders(test_cases_text)
            primary == Ascending(PrimaryAnchors(s))
            secondary == Ascending(SecondaryAnchors(s))
        IN  /\ (primary # <<>> =>
                   /\ Len(test_cases) = Len(primary)
                   /\ \A i \in 1..Len(primary) :
                          test_cases[i].id = <<"TC-">> \o PrimaryLabel(s, primary[i]))
            /\ (primary = <<>> =>
                   /\ Len(test_cases) = Len(secondary)
                   /\ \A i \in 1..Len(secondary) :
                          test_cases[i].id
                              = <<"TC-">> \o SecondaryLabel(s, secondary[i]))
            /\ (primary = <<>> /\ secondary = <<>> => test_cases = <<>>)

\* A text with a primary anchor and a bare token: one record, the primary one.
C22_Witness ==
    /\ Parsed
    /\ Cardinality(PrimaryAnchors(StripHeaders(test_cases_text))) = 1
    /\ BareIdTokens(StripHeaders(test_cases_text)) # {}
    /\ Len(test_cases) = 1
    /\ test_cases[1].id = <<"TC-", "1">>

\* The law of C23 over a sequence of lines: line j of the output is line j
\* of the input when that one begins with '<digits>.', and line j behind
\* '<j>. ' otherwise (j - 1 lines were emitted before it).
FollowsNumberingLaw(lines, emitted) ==
    /\ Len(emitted) <= Len(lines)
    /\ \A j \in 1..Len(emitted) :
           emitted[j] = IF StartsNumbered(lines[j]) THEN lines[j]
                        ELSE ToStr(j) \o <<".", " ">> \o lines[j]

InputLabelEnd(content) ==
    LET i == Leftmost(content, "Input")
    IN  IF IsInputDataLabel(content, i) THEN i + 3 ELSE i + 1

\* C24: in a block with an 'Input:' or 'Input Data:' label, input_data is
\* the cleaned text from behind the whole label (and its colon) up to the
\* 'Notes' label: it does not begin with the label's word 'Data' and holds
\* no 'Notes' label.
C24_InputDataAfterLabel ==
    Parsed =>
        \A k \in 1..Len(test_cases) :
            LET content == BlockContent(k)
                from == SkipSpace(content,
                            SkipColon(content, InputLabelEnd(content)))
                input_data == test_cases[k].input_data
            IN  Leftmost(content, "Input") # 0 =>
                    /\ input_data = CleanFieldContent(LazyGroup(content, from, "input"))
                    /\ At(input_data, 1) # "Data"
                    /\ \A j \in 1..Len(input_data) : ~IsNotesLabel(input_data, j)

\* The line starts of a block at or behind `from` where an 'Input' label
\* stands.
InputLabelsFrom(content, from) ==
    {j \in from..Len(content) :
        IsInputLabel(content, j) /\ (j = 1 \/ content[j - 1] = "\n")}

\* C25: in a block with an 'Expected Result' label followed by an 'Input' or
\* 'Input Data' label, expected_result is the cleaned text between the two
\* labels: it is empty when only whitespace stands between them, and it
\* never holds the input label or what follows it.
C25_ExpectedResultBeforeInput ==
    Parsed =>
        \A k \in 1..Len(test_cases) :
            LET content == BlockContent(k)
                i == Leftmost(content, "Expected Result")
                from == SkipColon(content, i + 1)
                inputs == InputLabelsFrom(content, from)
            IN  i # 0 /\ inputs # {} =>
                    test_cases[k].expected_result
                        = CleanFieldContent(SubSeq(content, from, Min(inputs) - 1))

\* C26: the steps of every record are empty or lines that each begin with
\* '<digits>.'; the scorer's step count is the number of these lines; and
\* the split of the recovery rule finds no marker line in them.
C26_StepsAreNumberedLines ==
    Parsed =>
        \A k \in 1..Len(test_cases) :
            LET steps == test_cases[k].steps
            IN  /\ steps = <<>> => StepCount(steps) = 0
                /\ steps # <<>> =>
                       /\ \A j \in 1..Len(SplitLines(steps)) :
                              StartsNumbered(SplitLines(steps)[j])
                       /\ StepCount(steps) = Len(SplitLines(steps))
                /\ Len(RecoveryParts(steps)) = 1
                /\ Leftmost(steps, "recovery") = 0

\* A block with an unnumbered step and a lower-case marker line behind it:
\* the record has numbered steps and no expected result, so the recovery
\* rule looks for a marker in the steps, and finds none.
C26_Witness ==
    /\ Parsed
    /\ \E k \in 1..Len(test_cases) :
           /\ \E i \in 1..Len(BlockContent(k)) : IsInlineMarker(BlockContent(k), i)
           /\ test_cases[k].expected_result = <<>>
           /\ test_cases[k].steps = <<"1", ".", " ", "foo">>
           /\ StepCount(test_cases[k].steps) = 1

\* C27: a record flagged incomplete gets a non-empty incomplete_fields list
\* and a score of at most 500/7; a score of 600/7 or more goes only to a
\* record flagged complete.
C27_IncompleteScoresAtMostFive ==
    Validated =>
        \A i \in 1..Len(test_cases) :
            /\ ~test_cases[i].is_complete =>
                   /\ quality_scores[i].incomplete_fields # <<>>
                   /\ quality_scores[i].score.num * 7
                          <= 500 * quality_scores[i].score.den
            /\ quality_scores[i].score.num * 7 >= 600 * quality_scores[i].score.den
                   => test_cases[i].is_complete

\* An incomplete record that meets every criterion it can: five of seven.
C27_Witness ==
    /\ Validated
    /\ Len(test_cases) = 1
    /\ ~test_cases[1].is_complete
    /\ quality_scores[1].incomplete_fields = <<"preconditions">>
    /\ quality_scores[1].score = [num |-> 500, den |-> 7]

\* The scorer found that record k has the minimum of steps.
HasMinimumSteps(k) ==
    \A a \in 1..Len(quality_scores[k].areas_for_improvement) :
        quality_scores[k].areas_for_improvement[a] # "has_minimum_steps"

\* C28: a step count found appropriate is also found to reach the minimum:
\* whenever has_minimum_steps is among the areas for improvement,
\* has_appropriate_step_count is among them too, whatever the section.
C28_AppropriateImpliesMinimum ==
    Validated =>
        \A k \in 1..Len(test_cases) : Appropriate(k) => HasMinimumSteps(k)

\* Two steps under a section with a simple and a complex keyword: both
\* criteria fail.
C28_Witness ==
    /\ Validated
    /\ Len(test_cases) = 1
    /\ IsSimpleSection(test_cases[1].section)
    /\ IsComplexSection(test_cases[1].section)
    /\ StepCount(test_cases[1].steps) = 2
    /\ ~HasMinimumSteps(1)
    /\ ~Appropriate(1)

\* C29: for a section that holds a simple and a complex keyword the simple
\* rule decides: the step count is appropriate exactly when it is 3 to 6.
C29_SimpleRuleFirst ==
    Validated =>
        \A k \in 1..Len(test_cases) :
            IsSimpleSection(test_cases[k].section)
            /\ IsComplexSection(test_cases[k].section)
                => (Appropriate(k) <=>
                        /\ 3 <= StepCount(test_cases[k].steps)
                        /\ StepCount(test_cases[k].steps) <= 6)

\* 'Login Workflow' with four steps: appropriate, though the complex rule
\* asks for five.
C29_Witness ==
    /\ Validated
    /\ Len(test_cases) = 1
    /\ test_cases[1].section = <<"Login", " ", "Workflow">>
    /\ StepCount(test_cases[1].steps) = 4
    /\ Appropriate(1)

\* C21: when the body of the loop raises for some blocks, the call still
\* returns: its result holds, in order, the record of every block that did
\* not raise, as a call without a raise gives it; the records are as many
\* as the blocks less those that raised; and the mismatch is logged (line
\* 178) exactly when a block raised.
C21_RaisingBlockIsDropped ==
    parse_call # <<>> /\ parse_call.pc = "returned" /\ parse_call.matches # <<>> =>
        LET alone == ParseTestCases(parse_call.test_cases_text, parse_call.ticket_key)
            kept == Ascending((1..Len(parse_call.matches)) \ parse_call.raised)
        IN  /\ Len(alone) = Len(parse_call.matches)
            /\ parse_call.result = [j \in 1..Len(kept) |-> alone[kept[j]]]
            /\ Len(parse_call.result)
                   = Len(parse_call.matches) - Cardinality(parse_call.raised)
            /\ parse_call.parsed_count = Len(parse_call.result)
            /\ parse_call.raised # {} <=>
                   \E r \in log : r.line = 178

\* Three blocks of which the second raised: the first and the third are
\* returned.
C21_Witness ==
    /\ parse_call # <<>>
    /\ parse_call.pc = "returned"
    /\ Len(parse_call.matches) = 3
    /\ parse_call.raised = {2}
    /\ parse_call.matches[1].test_id = <<"1">>
    /\ parse_call.matches[3].test_id = <<"2">>
    /\ Len(parse_call.result) = 2
    /\ parse_call.result[1].id = <<"TC-", "1">>
    /\ parse_call.result[2].id = <<"TC-", "2">>

\* The calls of the ticket pipeline in the order of the source.
PipelineSteps == <<"fetch", "generate", "parse", "score", "upload", "comment">>

====
